---- MODULE Spec2Model ----
(***************************************************************************)
(* Retro Block Stack (src/App.tsx): the block-stacking state machine, the  *)
(* timed line-clear pipeline and the particle collection, modelled as one  *)
(* state machine.  Every event handler, timer callback and animation frame *)
(* is one action; the React effects that run after the render a handler    *)
(* causes (level, high score, gravity interval, physics loop) are applied  *)
(* at the end of every action by Effects.                                  *)
(*                                                                         *)
(* The board is scaled down (BOARD_WIDTH x BOARD_HEIGHT are model bounds,  *)
(* the program uses 10 x 20); every definition is written in terms of the  *)
(* two names, as the source is.                                            *)
(***************************************************************************)
EXTENDS Integers, Sequences, FiniteSets, TLC

\* ---------------------------------------------------------------- bounds
BOARD_WIDTH == 4
BOARD_HEIGHT == 5
\* piece locks, test-line-clear requests and physics frames explored in a run
MaxEvents == 2
\* calls of rotate in a run of RotateSpec
MaxTurns == 4

\* ------------------------------------------------------- static tables
LINE_POINTS == <<40, 100, 300, 1200>>
THEMES == <<"FOREST", "WASTELAND", "VOLCANIC", "SPACE">>

\* a TypeScript array of arrays, 0-based
Mat(rows) ==
  [y \in 0..(Len(rows) - 1) |-> [x \in 0..(Len(rows[y + 1]) - 1) |-> rows[y + 1][x + 1]]]

TETROMINOES ==
  [I |-> Mat(<< <<"0","I","0","0">>, <<"0","I","0","0">>, <<"0","I","0","0">>, <<"0","I","0","0">> >>),
   J |-> Mat(<< <<"0","J","0">>, <<"0","J","0">>, <<"J","J","0">> >>),
   L |-> Mat(<< <<"0","L","0">>, <<"0","L","0">>, <<"0","L","L">> >>),
   O |-> Mat(<< <<"O","O">>, <<"O","O">> >>),
   S |-> Mat(<< <<"0","S","S">>, <<"S","S","0">>, <<"0","0","0">> >>),
   T |-> Mat(<< <<"0","0","0">>, <<"T","T","T">>, <<"0","T","0">> >>),
   Z |-> Mat(<< <<"Z","Z","0">>, <<"0","Z","Z">>, <<"0","0","0">> >>)]

\* the kinds randomTetromino draws and the themes startGame draws in the
\* explored runs
Kinds == {"I", "O"}
ThemeChoices == {"FOREST"}

\* randomTetromino(): the shape of a kind drawn at random
randomTetromino == {TETROMINOES[k] : k \in Kinds}

EmptyCell == <<"0", "clear">>
EmptyRow == [x \in 0..(BOARD_WIDTH - 1) |-> EmptyCell]
createBoard == [y \in 0..(BOARD_HEIGHT - 1) |-> EmptyRow]

Rows(m) == Cardinality(DOMAIN m)
Cols(m) == Cardinality(DOMAIN m[0])

\* ------------------------------------------------------ checkCollision
\* the occupied cells of a shape matrix
Occupied(m) == {c \in (DOMAIN m) \X (DOMAIN m[0]) : m[c[1]][c[2]] # "0"}

\* CellTest without the test that the row exists
CellTest_noRowTest(p, b, o, c) ==
  LET newY == c[1] + p.pos.y + o.y
      newX == c[2] + p.pos.x + o.x
  IN  IF newY >= BOARD_HEIGHT \/ newX < 0 \/ newX >= BOARD_WIDTH THEN "hit"
      ELSE IF newY \notin DOMAIN b THEN "fault"
      ELSE IF b[newY][newX][2] # "clear" THEN "hit"
      ELSE "pass"

\* CellTest that lets cells above the grid pass
CellTest_permitsAbove(p, b, o, c) ==
  LET newY == c[1] + p.pos.y + o.y
      newX == c[2] + p.pos.x + o.x
  IN  IF newY >= BOARD_HEIGHT \/ newX < 0 \/ newX >= BOARD_WIDTH THEN "hit"
      ELSE IF newY < 0 THEN "pass"
      ELSE IF newY \notin DOMAIN b THEN "hit"
      ELSE IF b[newY][newX][2] # "clear" THEN "hit"
      ELSE "pass"

\* the test made for one occupied cell c = <<y, x>>: "hit" when the
\* condition of the if is true, "fault" when evaluating it reads a cell of
\* an undefined row, "pass" otherwise
CellTest(p, b, o, c) ==
  LET newY == c[1] + p.pos.y + o.y
      newX == c[2] + p.pos.x + o.x
  IN  IF newY >= BOARD_HEIGHT \/ newX < 0 \/ newX >= BOARD_WIDTH THEN "hit"
      ELSE IF newY \notin DOMAIN b THEN "hit"
      ELSE IF newX \notin DOMAIN b[newY] THEN "fault"
      ELSE IF b[newY][newX][2] # "clear" THEN "hit"
      ELSE "pass"

\* the loops visit the cells row by row and stop at the first hit
collisionOutcome(p, b, o) ==
  LET w == Cols(p.tetromino)
      stops == {c[1] * w + c[2] : c \in {d \in Occupied(p.tetromino) : CellTest(p, b, o, d) # "pass"}}
  IN  IF stops = {} THEN "false"
      ELSE LET k == CHOOSE i \in stops : \A j \in stops : i <= j
               c == <<k \div w, k % w>>
           IN  IF CellTest(p, b, o, c) = "hit" THEN "true" ELSE "fault"

checkCollision(p, b, o) == collisionOutcome(p, b, o) = "true"

Off(dx, dy) == [x |-> dx, y |-> dy]

\* --------------------------------------------------------------- state
VARIABLES
  board, player, nextTetromino, score, lines, level, highScore,
  isGameOver, isPaused, particles, isAnimating, backgroundTheme,
  timers,          \* pending setTimeout callbacks of the line-clear pipelines
  dropInterval,    \* the armed gravity intervals and dropIntervalRef
  physicsFrame,    \* the pending requestAnimationFrame callbacks and physicsFrameRef
  nEvents,         \* locks, test requests and physics frames so far (for MaxEvents)
  probe            \* the last checkCollision call made by CollisionSpec

vars == <<board, player, nextTetromino, score, lines, level, highScore,
          isGameOver, isPaused, particles, isAnimating, backgroundTheme,
          timers, dropInterval, physicsFrame, nEvents, probe>>

\* the component state as one record, as a render sees it
Cur ==
  [board |-> board, player |-> player, nextTetromino |-> nextTetromino,
   score |-> score, lines |-> lines, level |-> level, highScore |-> highScore,
   isGameOver |-> isGameOver, isPaused |-> isPaused, particles |-> particles,
   isAnimating |-> isAnimating, backgroundTheme |-> backgroundTheme,
   timers |-> timers, dropInterval |-> dropInterval, physicsFrame |-> physicsFrame]

\* fixed-point scale of the particle coordinates: 1 cell = FP units
FP == 100 * 1000
\* values a Math.random() call returns in the explored runs, in FP units
\* (0 <= r < FP); every call made by one createDebris call returns the same draw
Rand == {0}

\* ------------------------------------------------------------- effects
\* levelEffect that raises the level only when lines is a multiple of ten
levelEffect_onMultiplesOnly(s) ==
  IF s.lines % 10 = 0 /\ (s.lines \div 10) + 1 # s.level
  THEN [s EXCEPT !.level = (s.lines \div 10) + 1]
  ELSE s

\* useEffect on [lines, level, backgroundTheme]
levelEffect(s) ==
  LET newLevel == (s.lines \div 10) + 1
      idx == CHOOSE i \in 1..Len(THEMES) : THEMES[i] = s.backgroundTheme
  IN  IF newLevel # s.level
      THEN [s EXCEPT !.level = newLevel,
                     !.backgroundTheme =
                        IF newLevel > 1 /\ newLevel % 5 = 1
                        THEN THEMES[(idx % Len(THEMES)) + 1] ELSE @]
      ELSE s

\* useEffect on [isGameOver, score, highScore]
highScoreEffect(s) ==
  IF ~s.isGameOver /\ s.score > s.highScore THEN [s EXCEPT !.highScore = s.score] ELSE s

\* The timers of the browser, up to the names of their ids.
\* dropInterval: armed is the number of armed intervals, ref is true when
\* dropIntervalRef.current is the id of an armed one, cleanup is true when
\* the last run of the gravity effect returned its cleanup function.
\* physicsFrame: pending is the number of requested animation frames whose
\* callback has not run, ref is true when physicsFrameRef.current is the
\* id of a pending one.
NoInterval == [armed |-> 0, ref |-> FALSE, cleanup |-> FALSE]
OneInterval == [armed |-> 1, ref |-> TRUE, cleanup |-> TRUE]
NoFrame == [pending |-> 0, ref |-> FALSE]
OneFrame == [pending |-> 1, ref |-> TRUE]

\* if (dropIntervalRef.current) clearInterval(dropIntervalRef.current)
ClearRef(d) == IF d.ref THEN [d EXCEPT !.armed = @ - 1, !.ref = FALSE] ELSE d

\* if (physicsFrameRef.current) cancelAnimationFrame(physicsFrameRef.current)
CancelRef(f) == IF f.ref THEN [f EXCEPT !.pending = @ - 1, !.ref = FALSE] ELSE f

\* the values the dependencies of the gravity effect are made of: drop
\* changes with board, player, the three flags and handlePieceLanded, which
\* changes with board, level, nextTetromino and createDebris, which changes
\* with backgroundTheme.  (A dependency that is set to a new object of equal
\* value reruns the effect as well; the rerun clears the interval and arms
\* one, which leaves dropInterval as it is.)
GravityDeps(s) ==
  <<s.board, s.player, s.nextTetromino, s.backgroundTheme,
    s.isPaused, s.isGameOver, s.level, s.isAnimating>>

\* gravityEffect whose cleanup clears nothing
gravityEffect_noCleanup(s) ==
  IF GravityDeps(s) = GravityDeps(Cur) THEN s
  ELSE IF s.isPaused \/ s.isGameOver \/ s.isAnimating
       THEN [s EXCEPT !.dropInterval = [ClearRef(@) EXCEPT !.cleanup = FALSE]]
       ELSE [s EXCEPT !.dropInterval = [armed |-> @.armed + 1, ref |-> TRUE, cleanup |-> TRUE]]

\* useEffect on [drop, isPaused, isGameOver, level, isAnimating], rerun when
\* a dependency differs from the previous render (Cur): the cleanup of the
\* previous run, then the body
gravityEffect(s) ==
  IF GravityDeps(s) = GravityDeps(Cur) THEN s
  ELSE LET cleaned == IF s.dropInterval.cleanup THEN ClearRef(s.dropInterval)
                      ELSE s.dropInterval
       IN  IF s.isPaused \/ s.isGameOver \/ s.isAnimating
           THEN [s EXCEPT !.dropInterval = [ClearRef(cleaned) EXCEPT !.cleanup = FALSE]]
           ELSE [s EXCEPT !.dropInterval =
                            [armed |-> cleaned.armed + 1, ref |-> TRUE, cleanup |-> TRUE]]

\* physicsEffect whose cleanup cancels nothing
physicsEffect_noCancel(s) ==
  IF s.isGameOver = Cur.isGameOver THEN s
  ELSE IF ~s.isGameOver
       THEN [s EXCEPT !.physicsFrame = [pending |-> @.pending + 1, ref |-> TRUE]]
       ELSE s

\* useEffect on [isGameOver, runPhysics] (runPhysics never changes), rerun
\* when isGameOver differs from the previous render: the cleanup, then the
\* body
physicsEffect(s) ==
  IF s.isGameOver = Cur.isGameOver THEN s
  ELSE LET canceled == CancelRef(s.physicsFrame)
       IN  IF ~s.isGameOver
           THEN [s EXCEPT !.physicsFrame = [pending |-> canceled.pending + 1, ref |-> TRUE]]
           ELSE [s EXCEPT !.physicsFrame = canceled]

\* the effects of the render that follows a handler
Effects(s) == physicsEffect(gravityEffect(highScoreEffect(levelEffect(s))))

\* ------------------------------------------------------------ handlers
Spawn(t) ==
  [pos |-> [x |-> (BOARD_WIDTH \div 2) - (Cols(t) \div 2), y |-> 0],
   tetromino |-> t, collided |-> FALSE]

startGame(s, theme, firstPiece, nextPiece) ==
  [s EXCEPT !.board = createBoard, !.score = 0, !.lines = 0, !.level = 1,
            !.particles = <<>>, !.backgroundTheme = theme,
            !.player = Spawn(firstPiece), !.nextTetromino = nextPiece,
            !.isGameOver = FALSE, !.isPaused = FALSE]

updatePlayerPos(s, o) ==
  [s EXCEPT !.player.pos = [x |-> @.x + o.x, y |-> @.y + o.y]]

\* the board with the occupied cells of p written as merged
MergePiece(b, p) ==
  [y \in DOMAIN b |-> [x \in DOMAIN b[y] |->
     LET c == <<y - p.pos.y, x - p.pos.x>>
     IN  IF c \in Occupied(p.tetromino) /\ y < BOARD_HEIGHT
         THEN <<p.tetromino[c[1]][c[2]], "merged">> ELSE b[y][x]]]

\* FullRows that reports every row of the grid once one row is full
FullRows_wholeGrid(b) ==
  IF \E y \in DOMAIN b : \A x \in DOMAIN b[y] : b[y][x][1] # "0" /\ b[y][x][2] = "merged"
  THEN DOMAIN b ELSE {}

\* FullRows that reports the lowest full row only
FullRows_lowestOnly(b) ==
  LET full == {y \in DOMAIN b : \A x \in DOMAIN b[y] : b[y][x][1] # "0" /\ b[y][x][2] = "merged"}
  IN  {y \in full : \A z \in full : z <= y}

FullRows(b) ==
  {y \in DOMAIN b : \A x \in DOMAIN b[y] : b[y][x][1] # "0" /\ b[y][x][2] = "merged"}

CrackRows(b, rows) ==
  [y \in DOMAIN b |-> IF y \in rows THEN [x \in DOMAIN b[y] |-> <<b[y][x][1], "cracking">>]
                      ELSE b[y]]

\* BlankRows that empties the values and keeps the statuses
BlankRows_keepsStatus(b, rows) ==
  [y \in DOMAIN b |-> IF y \in rows THEN [x \in DOMAIN b[y] |-> <<"0", b[y][x][2]>>]
                      ELSE b[y]]

BlankRows(b, rows) == [y \in DOMAIN b |-> IF y \in rows THEN EmptyRow ELSE b[y]]

\* SweepRows without the rows that unshift() adds on top
SweepRows_noPad(b, rows) ==
  LET idx == [i \in 1..Rows(b) |-> i - 1]
      kept == SelectSeq(idx, LAMBDA y : y \notin rows)
  IN  [y \in 0..(Len(kept) - 1) |-> b[kept[y + 1]]]

\* SweepRows with the empty rows pushed below the kept rows
SweepRows_padBelow(b, rows) ==
  LET idx == [i \in 1..Rows(b) |-> i - 1]
      kept == SelectSeq(idx, LAMBDA y : y \notin rows)
      pad == IF Len(kept) < BOARD_HEIGHT THEN BOARD_HEIGHT - Len(kept) ELSE 0
      out == [i \in 1..Len(kept) |-> b[kept[i]]] \o [i \in 1..pad |-> EmptyRow]
  IN  [y \in 0..(Len(out) - 1) |-> out[y + 1]]

\* reduce() keeps the rows that are not cleared, unshift() pads the top
SweepRows(b, rows) ==
  LET idx == [i \in 1..Rows(b) |-> i - 1]
      kept == SelectSeq(idx, LAMBDA y : y \notin rows)
      pad == IF Len(kept) < BOARD_HEIGHT THEN BOARD_HEIGHT - Len(kept) ELSE 0
      out == [i \in 1..pad |-> EmptyRow] \o [i \in 1..Len(kept) |-> b[kept[i]]]
  IN  [y \in 0..(Len(out) - 1) |-> out[y + 1]]

\* the closure a pipeline's timer callbacks run in.  The last three fields
\* are history that no callback reads: the score and lines when the timer
\* was set, and whether startGame has run since
Timer(stage, kind, s, newBoard, rows) ==
  [stage |-> stage, kind |-> kind, newBoard |-> newBoard, rows |-> rows,
   level |-> s.level, nextTetromino |-> s.nextTetromino, theme |-> s.backgroundTheme,
   score0 |-> s.score, lines0 |-> s.lines, restarted |-> FALSE]

\* SpawnNext that queues a fresh piece also when the spawn is blocked
SpawnNext_queuesWhenBlocked(s, t, b, nextPiece) ==
  IF checkCollision(Spawn(t), b, Off(0, 0))
  THEN [s EXCEPT !.isGameOver = TRUE, !.nextTetromino = nextPiece]
  ELSE [s EXCEPT !.player = Spawn(t), !.nextTetromino = nextPiece]

\* SpawnNext that installs the blocked piece as well
SpawnNext_installsBlocked(s, t, b, nextPiece) ==
  IF checkCollision(Spawn(t), b, Off(0, 0))
  THEN [s EXCEPT !.isGameOver = TRUE, !.player = Spawn(t), !.nextTetromino = nextPiece]
  ELSE [s EXCEPT !.player = Spawn(t), !.nextTetromino = nextPiece]

\* the new piece is installed unless it collides where it spawns
SpawnNext(s, t, b, nextPiece) ==
  IF checkCollision(Spawn(t), b, Off(0, 0))
  THEN [s EXCEPT !.isGameOver = TRUE]
  ELSE [s EXCEPT !.player = Spawn(t), !.nextTetromino = nextPiece]

\* handlePieceLanded that never enters the pipeline
handlePieceLanded_neverClears(s, landedPlayer, nextPiece) ==
  LET newBoard == MergePiece(s.board, landedPlayer)
  IN  SpawnNext([s EXCEPT !.board = newBoard], s.nextTetromino, newBoard, nextPiece)

handlePieceLanded(s, landedPlayer, nextPiece) ==
  LET newBoard == MergePiece(s.board, landedPlayer)
      linesToClearIndices == FullRows(newBoard)
  IN  IF linesToClearIndices # {}
      THEN [s EXCEPT !.isAnimating = TRUE,
                     !.board = CrackRows(newBoard, linesToClearIndices),
                     !.timers = @ \cup {Timer("clear", "lock", s, newBoard, linesToClearIndices)}]
      ELSE SpawnNext([s EXCEPT !.board = newBoard], s.nextTetromino, newBoard, nextPiece)

\* drop that ends the game one row lower
drop_endsBelowTop(s, nextPiece) ==
  IF s.isPaused \/ s.isGameOver \/ s.isAnimating THEN s
  ELSE IF ~checkCollision(s.player, s.board, Off(0, 1)) THEN updatePlayerPos(s, Off(0, 1))
  ELSE IF s.player.pos.y < 2 THEN [s EXCEPT !.isGameOver = TRUE]
  ELSE handlePieceLanded(s, s.player, nextPiece)

drop(s, nextPiece) ==
  IF s.isPaused \/ s.isGameOver \/ s.isAnimating THEN s
  ELSE IF ~checkCollision(s.player, s.board, Off(0, 1)) THEN updatePlayerPos(s, Off(0, 1))
  ELSE IF s.player.pos.y < 1 THEN [s EXCEPT !.isGameOver = TRUE]
  ELSE handlePieceLanded(s, s.player, nextPiece)

\* movePlayer without the collision test
movePlayer_unchecked(s, dir) == updatePlayerPos(s, Off(dir, 0))

movePlayer(s, dir) ==
  IF ~checkCollision(s.player, s.board, Off(dir, 0)) THEN updatePlayerPos(s, Off(dir, 0)) ELSE s

rotate(matrix) ==
  LET n == Rows(matrix)
      rotated == [i \in 0..(n - 1) |-> [j \in 0..(n - 1) |-> matrix[j][i]]]
  IN  [i \in 0..(n - 1) |-> [j \in 0..(n - 1) |-> rotated[i][(n - 1) - j]]]

\* the while loop of playerRotate: the piece it ends with, and whether the
\* loop ended normally (committed) or by the return inside it
RECURSIVE KickSearch(_, _, _)
KickSearch(cloned, b, offset) ==
  IF ~checkCollision(cloned, b, Off(0, 0)) THEN [committed |-> TRUE, player |-> cloned]
  ELSE LET moved == [cloned EXCEPT !.pos.x = @ + offset]
           next == -(offset + (IF offset > 0 THEN 1 ELSE -1))
       IN  IF next > Cols(cloned.tetromino) THEN [committed |-> FALSE, player |-> cloned]
           ELSE KickSearch(moved, b, next)

\* playerRotate that sets the player the loop ended with also after the return
playerRotate_keepsRejected(s) ==
  LET clonedPlayer == [s.player EXCEPT !.tetromino = rotate(@)]
      found == KickSearch(clonedPlayer, s.board, 1)
  IN  [s EXCEPT !.player = found.player]

playerRotate(s) ==
  LET clonedPlayer == [s.player EXCEPT !.tetromino = rotate(@)]
      found == KickSearch(clonedPlayer, s.board, 1)
  IN  IF found.committed THEN [s EXCEPT !.player = found.player] ELSE s
\* the while loop of hardDrop (and of the ghost projection)
RECURSIVE DropHeight(_, _, _)
DropHeight(p, b, dropHeight) ==
  IF ~checkCollision(p, b, Off(0, dropHeight + 1)) THEN DropHeight(p, b, dropHeight + 1)
  ELSE dropHeight

\* hardDrop that lands the piece one row short
hardDrop_oneShort(s, nextPiece) ==
  LET dropHeight == DropHeight(s.player, s.board, 0)
      landedPlayer == [s.player EXCEPT !.pos.y = @ + (IF dropHeight > 0 THEN dropHeight - 1 ELSE 0)]
  IN  handlePieceLanded([s EXCEPT !.player.collided = TRUE], landedPlayer, nextPiece)

\* hardDrop that marks the player collided after handlePieceLanded has run
hardDrop_marksAfterLanding(s, nextPiece) ==
  LET dropHeight == DropHeight(s.player, s.board, 0)
      landedPlayer == [s.player EXCEPT !.pos.y = @ + dropHeight]
  IN  [handlePieceLanded(s, landedPlayer, nextPiece) EXCEPT !.player.collided = TRUE]

hardDrop(s, nextPiece) ==
  LET dropHeight == DropHeight(s.player, s.board, 0)
      landedPlayer == [s.player EXCEPT !.pos.y = @ + dropHeight]
  IN  handlePieceLanded([s EXCEPT !.player.collided = TRUE], landedPlayer, nextPiece)

togglePause(s) ==
  IF s.isGameOver THEN s ELSE [s EXCEPT !.isPaused = ~@]

\* onBlur of the game area
onBlur(s) == IF ~s.isGameOver THEN [s EXCEPT !.isPaused = TRUE] ELSE s

\* testLineClear without the return taken while a pipeline runs
testLineClear_ignoresAnimating(s) ==
  IF s.isGameOver THEN s
  ELSE LET testBoard == [s.board EXCEPT ![BOARD_HEIGHT - 1] =
                            [x \in 0..(BOARD_WIDTH - 1) |-> <<"T", "merged">>]]
           linesToClearIndices == {BOARD_HEIGHT - 1}
       IN  [s EXCEPT !.isAnimating = TRUE,
                     !.board = CrackRows(testBoard, linesToClearIndices),
                     !.timers = @ \cup {Timer("clear", "test", s, testBoard, linesToClearIndices)}]

testLineClear(s) ==
  IF s.isGameOver \/ s.isAnimating THEN s
  ELSE LET testBoard == [s.board EXCEPT ![BOARD_HEIGHT - 1] =
                            [x \in 0..(BOARD_WIDTH - 1) |-> <<"T", "merged">>]]
           linesToClearIndices == {BOARD_HEIGHT - 1}
       IN  [s EXCEPT !.isAnimating = TRUE,
                     !.board = CrackRows(testBoard, linesToClearIndices),
                     !.timers = @ \cup {Timer("clear", "test", s, testBoard, linesToClearIndices)}]

KeyNames == {"p", "ArrowLeft", "ArrowRight", "ArrowDown", "ArrowUp", " "}

\* handleKeyDown without the return taken when the game is over
handleKeyDown_ignoresGameOver(s, key, nextPiece) ==
  IF s.player.collided \/ s.isAnimating THEN s
  ELSE IF key = "p" THEN togglePause(s)
  ELSE IF s.isPaused THEN s
  ELSE IF key = "ArrowLeft" THEN movePlayer(s, -1)
  ELSE IF key = "ArrowRight" THEN movePlayer(s, 1)
  ELSE IF key = "ArrowDown" THEN drop(s, nextPiece)
  ELSE IF key = "ArrowUp" THEN playerRotate(s)
  ELSE IF key = " " THEN hardDrop(s, nextPiece)
  ELSE s

\* handleKeyDown without the return taken while paused
handleKeyDown_ignoresPause(s, key, nextPiece) ==
  IF s.isGameOver \/ s.player.collided \/ s.isAnimating THEN s
  ELSE IF key = "p" THEN togglePause(s)
  ELSE IF key = "ArrowLeft" THEN movePlayer(s, -1)
  ELSE IF key = "ArrowRight" THEN movePlayer(s, 1)
  ELSE IF key = "ArrowDown" THEN drop(s, nextPiece)
  ELSE IF key = "ArrowUp" THEN playerRotate(s)
  ELSE IF key = " " THEN hardDrop(s, nextPiece)
  ELSE s

handleKeyDown(s, key, nextPiece) ==
  IF s.isGameOver \/ s.player.collided \/ s.isAnimating THEN s
  ELSE IF key = "p" THEN togglePause(s)
  ELSE IF s.isPaused THEN s
  ELSE IF key = "ArrowLeft" THEN movePlayer(s, -1)
  ELSE IF key = "ArrowRight" THEN movePlayer(s, 1)
  ELSE IF key = "ArrowDown" THEN drop(s, nextPiece)
  ELSE IF key = "ArrowUp" THEN playerRotate(s)
  ELSE IF key = " " THEN hardDrop(s, nextPiece)
  ELSE s

\* ------------------------------------------------------------- display
\* GhostY whose loop tests the row it stands on
GhostY_testsOwnRow(p, b, ghostY) ==
  LET RECURSIVE Loop(_)
      Loop(g) == IF ~checkCollision(p, b, Off(0, g - p.pos.y)) THEN Loop(g + 1) ELSE g
  IN  Loop(ghostY)

\* the while loop of the ghost projection
RECURSIVE GhostY(_, _, _)
GhostY(p, b, ghostY) ==
  IF ~checkCollision(p, b, Off(0, (ghostY - p.pos.y) + 1)) THEN GhostY(p, b, ghostY + 1)
  ELSE ghostY

\* Draw ghost piece: the cells of the piece at row ghostY, except over merged
\* or cracking cells
drawGhost(b, p, ghostY) ==
  [y \in DOMAIN b |-> [x \in DOMAIN b[y] |->
     LET c == <<y - ghostY, x - p.pos.x>>
     IN  IF c \in Occupied(p.tetromino) /\ b[y][x][2] # "merged" /\ b[y][x][2] # "cracking"
         THEN <<p.tetromino[c[1]][c[2]], "ghost">> ELSE b[y][x]]]

\* Draw active player piece
drawPlayer(b, p) ==
  [y \in DOMAIN b |-> [x \in DOMAIN b[y] |->
     LET c == <<y - p.pos.y, x - p.pos.x>>
     IN  IF c \in Occupied(p.tetromino) THEN <<p.tetromino[c[1]][c[2]], "clear">>
         ELSE b[y][x]]]

\* the board a render hands to GameBoard: the ghost, then the active piece,
\* drawn on a copy of the grid
displayBoard(s) ==
  IF s.isGameOver THEN s.board
  ELSE drawPlayer(drawGhost(s.board, s.player, GhostY(s.player, s.board, s.player.pos.y)),
                  s.player)

\* ----------------------------------------------------------- particles
MAX_PARTICLES == 800

\* v * num / den, rounded towards zero
Scale(v, num, den) == IF v >= 0 THEN (v * num) \div den ELSE -(((-v) * num) \div den)

\* generateChippedShape: the largest vertex distance (the vertex list is
\* rendering data and is left out)
generateChippedShape(baseRadius, r) ==
  Scale(baseRadius, 6, 10) + Scale(Scale(baseRadius, 4, 10), r, FP)

Debris(x, y, r) ==
  LET particleX == x * FP + r
      particleY == y * FP + r
      baseRadius == Scale(r, 4, 10) + FP \div 10
  IN  [type |-> "debris", x |-> particleX, y |-> particleY,
       vx |-> Scale(particleX - (x * FP + FP \div 2), 18, 10) + Scale(r - FP \div 2, 8, 10),
       vy |-> Scale(particleY - (y * FP + FP \div 2), 18, 10) - Scale(r, 15, 10),
       boundingRadius |-> generateChippedShape(baseRadius, r),
       rotation |-> Scale(r, 7854, 1250),
       rotationSpeed |-> Scale(r - FP \div 2, 2, 10)]

\* the secondary particles pushed in iteration i of the loop; of a smoke,
\* leaf or ember only the kind and the life are modelled
Secondary(theme, x, y, i, r) ==
  LET life == 120 * FP + 60 * r
  IN  IF theme = "FOREST" THEN << [type |-> "leaf", life |-> life, initialLife |-> life] >>
      ELSE IF theme = "WASTELAND" THEN << [type |-> "smoke", life |-> life, initialLife |-> life] >>
      ELSE IF theme = "VOLCANIC"
        THEN << [type |-> "smoke", life |-> life, initialLife |-> life] >>
             \o (IF i % 2 = 0
                 THEN << [type |-> "ember", life |-> Scale(life, 8, 10),
                          initialLife |-> Scale(life, 8, 10)] >>
                 ELSE << >>)
      ELSE << [type |-> "sparkle", x |-> x * FP + FP \div 10 + Scale(r, 8, 10),
               y |-> y * FP + FP \div 10 + Scale(r, 8, 10),
               radius |-> FP \div 20 + Scale(r, 2, 10),
               life |-> 30 * FP + 30 * r, initialLife |-> 60 * FP] >>

RECURSIVE SecondaryLoop(_, _, _, _, _, _)
SecondaryLoop(theme, x, y, i, secondaryCount, r) ==
  IF i >= secondaryCount THEN << >>
  ELSE Secondary(theme, x, y, i, r) \o SecondaryLoop(theme, x, y, i + 1, secondaryCount, r)

\* CellParticles with one more possible fragment
CellParticles_extraFragment(theme, x, y, r) ==
  LET fragmentCount == 8 + Scale(r, 6, FP)
      secondaryCount == 12 + Scale(r, 8, FP)
  IN  [i \in 1..fragmentCount |-> Debris(x, y, r)]
      \o SecondaryLoop(theme, x, y, 0, secondaryCount, r)

\* CellParticles with the secondary count starting at 10
CellParticles_fromTen(theme, x, y, r) ==
  LET fragmentCount == 8 + Scale(r, 5, FP)
      secondaryCount == 10 + Scale(r, 8, FP)
  IN  [i \in 1..fragmentCount |-> Debris(x, y, r)]
      \o SecondaryLoop(theme, x, y, 0, secondaryCount, r)

\* what one non-empty cell emits
CellParticles(theme, x, y, r) ==
  LET fragmentCount == 8 + Scale(r, 5, FP)
      secondaryCount == 12 + Scale(r, 8, FP)
  IN  [i \in 1..fragmentCount |-> Debris(x, y, r)]
      \o SecondaryLoop(theme, x, y, 0, secondaryCount, r)

\* the cells of the cleared rows, row by row; k counts them
RECURSIVE NewParticles(_, _, _, _, _)
NewParticles(rowSeq, boardState, theme, r, k) ==
  IF k >= Len(rowSeq) * BOARD_WIDTH THEN << >>
  ELSE LET y == rowSeq[(k \div BOARD_WIDTH) + 1]
           x == k % BOARD_WIDTH
       IN  (IF boardState[y][x][1] # "0" THEN CellParticles(theme, x, y, r) ELSE << >>)
           \o NewParticles(rowSeq, boardState, theme, r, k + 1)

\* slice(0, n): the oldest entries are kept
LastN_keepsOldest(q, n) == IF Len(q) <= n THEN q ELSE SubSeq(q, 1, n)

\* slice(-n)
LastN(q, n) == IF Len(q) <= n THEN q ELSE SubSeq(q, Len(q) - n + 1, Len(q))

\* the array newParticles of a createDebris call
newParticles(clearedRows, boardState, theme, r) ==
  LET idx == [i \in 1..BOARD_HEIGHT |-> i - 1]
      rowSeq == SelectSeq(idx, LAMBDA y : y \in clearedRows)
  IN  NewParticles(rowSeq, boardState, theme, r, 0)

\* createDebris without the slice
createDebris_uncapped(prev, clearedRows, boardState, theme, r) ==
  prev \o newParticles(clearedRows, boardState, theme, r)

createDebris(prev, clearedRows, boardState, theme, r) ==
  LastN(prev \o newParticles(clearedRows, boardState, theme, r), MAX_PARTICLES)
\* ------------------------------------------------------------- physics
Abs(v) == IF v < 0 THEN -v ELSE v

\* StepParticle that removes a secondary particle only below life 0
StepParticle_keepsZeroLife(p) ==
  IF p.type # "debris"
  THEN LET life == p.life - FP
       IN  IF life < 0 THEN [type |-> "null"] ELSE [p EXCEPT !.life = life]
  ELSE LET vy0 == Scale(p.vy + FP \div 500, 98, 100)
           vx0 == Scale(p.vx, 98, 100)
           rs0 == Scale(p.rotationSpeed, 98, 100)
           nextX0 == p.x + vx0
           nextY0 == p.y + vy0
           left == nextX0 - p.boundingRadius < 0
           right == ~left /\ nextX0 + p.boundingRadius > BOARD_WIDTH * FP
           top == nextY0 - p.boundingRadius < 0
           nextX == IF left THEN p.boundingRadius
                    ELSE IF right THEN BOARD_WIDTH * FP - p.boundingRadius ELSE nextX0
           vx1 == IF left \/ right THEN Scale(-vx0, 6, 10) ELSE vx0
           rs1 == IF left \/ right THEN Scale(rs0, 5, 10) ELSE rs0
           nextY == IF top THEN p.boundingRadius ELSE nextY0
           vy1 == IF top THEN Scale(-vy0, 6, 10) ELSE vy0
           vx == IF Abs(vx1) < FP \div 100 THEN 0 ELSE vx1
           vy == IF Abs(vy1) < FP \div 100 /\ vy1 # 0 THEN 0 ELSE vy1
           rotationSpeed == IF Abs(rs1) < FP \div 100 THEN 0 ELSE rs1
       IN  IF nextY > (BOARD_HEIGHT + 5) * FP THEN [type |-> "null"]
           ELSE [p EXCEPT !.x = nextX, !.y = nextY, !.vx = vx, !.vy = vy,
                          !.rotation = @ + rotationSpeed, !.rotationSpeed = rotationSpeed]

\* one particle of the map() in runPhysics: the updated particle, or
\* "null" in the field type when it is dropped
StepParticle(p) ==
  IF p.type # "debris"
  THEN LET life == p.life - FP
       IN  IF life <= 0 THEN [type |-> "null"] ELSE [p EXCEPT !.life = life]
  ELSE LET vy0 == Scale(p.vy + FP \div 500, 98, 100)
           vx0 == Scale(p.vx, 98, 100)
           rs0 == Scale(p.rotationSpeed, 98, 100)
           nextX0 == p.x + vx0
           nextY0 == p.y + vy0
           left == nextX0 - p.boundingRadius < 0
           right == ~left /\ nextX0 + p.boundingRadius > BOARD_WIDTH * FP
           top == nextY0 - p.boundingRadius < 0
           nextX == IF left THEN p.boundingRadius
                    ELSE IF right THEN BOARD_WIDTH * FP - p.boundingRadius ELSE nextX0
           vx1 == IF left \/ right THEN Scale(-vx0, 6, 10) ELSE vx0
           rs1 == IF left \/ right THEN Scale(rs0, 5, 10) ELSE rs0
           nextY == IF top THEN p.boundingRadius ELSE nextY0
           vy1 == IF top THEN Scale(-vy0, 6, 10) ELSE vy0
           vx == IF Abs(vx1) < FP \div 100 THEN 0 ELSE vx1
           vy == IF Abs(vy1) < FP \div 100 /\ vy1 # 0 THEN 0 ELSE vy1
           rotationSpeed == IF Abs(rs1) < FP \div 100 THEN 0 ELSE rs1
       IN  IF nextY > (BOARD_HEIGHT + 5) * FP THEN [type |-> "null"]
           ELSE [p EXCEPT !.x = nextX, !.y = nextY, !.vx = vx, !.vy = vy,
                          !.rotation = @ + rotationSpeed, !.rotationSpeed = rotationSpeed]

\* runPhysics that returns the surviving particles in reverse order
runPhysics_survivorsReversed(prevParticles) ==
  IF Len(prevParticles) = 0 THEN << >>
  ELSE LET kept == SelectSeq([i \in 1..Len(prevParticles) |-> StepParticle(prevParticles[i])],
                             LAMBDA p : p.type # "null")
       IN  [i \in 1..Len(kept) |-> kept[(Len(kept) + 1) - i]]

runPhysics(prevParticles) ==
  IF Len(prevParticles) = 0 THEN << >>
  ELSE SelectSeq([i \in 1..Len(prevParticles) |-> StepParticle(prevParticles[i])],
                 LAMBDA p : p.type # "null")

\* ----------------------------------------------------- timer callbacks
\* the callback of the first setTimeout (200): debris, then the blanked board
\* clearCallback that does not schedule the nested callback
clearCallback_dropsNested(s, t, r) ==
  [s EXCEPT !.particles = createDebris(@, t.rows, t.newBoard, t.theme, r),
            !.board = BlankRows(t.newBoard, t.rows),
            !.timers = @ \ {t}]

clearCallback(s, t, r) ==
  [s EXCEPT !.particles = createDebris(@, t.rows, t.newBoard, t.theme, r),
            !.board = BlankRows(t.newBoard, t.rows),
            !.timers = (@ \ {t}) \cup {[t EXCEPT !.stage = "sweep"]}]

\* sweepCallback that assigns the points of the sweep to the score
sweepCallback_assignsPoints(s, t, nextPiece) ==
  LET sweptBoard == SweepRows(t.newBoard, t.rows)
      n == Cardinality(t.rows)
      scored == [s EXCEPT !.score = LINE_POINTS[n] * t.level,
                          !.lines = @ + n,
                          !.board = sweptBoard,
                          !.timers = @ \ {t}]
      spawned == IF t.kind = "lock"
                 THEN SpawnNext(scored, t.nextTetromino, sweptBoard, nextPiece)
                 ELSE scored
  IN  [spawned EXCEPT !.isAnimating = FALSE]

\* the callback of the nested setTimeout (1300)
sweepCallback(s, t, nextPiece) ==
  LET sweptBoard == SweepRows(t.newBoard, t.rows)
      n == Cardinality(t.rows)
      scored == [s EXCEPT !.score = @ + LINE_POINTS[n] * t.level,
                          !.lines = @ + n,
                          !.board = sweptBoard,
                          !.timers = @ \ {t}]
      spawned == IF t.kind = "lock"
                 THEN SpawnNext(scored, t.nextTetromino, sweptBoard, nextPiece)
                 ELSE scored
  IN  [spawned EXCEPT !.isAnimating = FALSE]

\* ------------------------------------------------------------- actions
Commit(s) ==
  /\ board' = s.board
  /\ player' = s.player
  /\ nextTetromino' = s.nextTetromino
  /\ score' = s.score
  /\ lines' = s.lines
  /\ level' = s.level
  /\ highScore' = s.highScore
  /\ isGameOver' = s.isGameOver
  /\ isPaused' = s.isPaused
  /\ particles' = s.particles
  /\ isAnimating' = s.isAnimating
  /\ backgroundTheme' = s.backgroundTheme
  /\ timers' = s.timers
  /\ dropInterval' = s.dropInterval
  /\ physicsFrame' = s.physicsFrame

\* a handler followed by the render and the effects it causes
Handle(s) == Commit(Effects(s))

NoProbe == [offset |-> Off(0, 0), outcome |-> "none"]

Init ==
  /\ probe = NoProbe
  /\ board = createBoard
  /\ player = [pos |-> [x |-> 0, y |-> 0], tetromino |-> Mat(<< <<"0">> >>), collided |-> FALSE]
  /\ nextTetromino \in randomTetromino
  /\ score = 0
  /\ lines = 0
  /\ level = 1
  /\ highScore = 0
  /\ isGameOver = TRUE
  /\ isPaused = FALSE
  /\ particles = << >>
  /\ isAnimating = FALSE
  /\ backgroundTheme = "SPACE"
  /\ timers = {}
  /\ dropInterval = NoInterval
  /\ physicsFrame = NoFrame
  /\ nEvents = 0

\* history only: the timers still pending when startGame runs
MarkRestarted(s) == [s EXCEPT !.timers = {[t EXCEPT !.restarted = TRUE] : t \in @}]

\* the Play Game / New Game button
StartGame ==
  /\ \E theme \in ThemeChoices, firstPiece \in randomTetromino, nextPiece \in randomTetromino :
        Handle(MarkRestarted(startGame(Cur, theme, firstPiece, nextPiece)))
  /\ UNCHANGED <<nEvents, probe>>

\* the handler reaches handlePieceLanded from the current state
DropLands(s) ==
  /\ ~(s.isPaused \/ s.isGameOver \/ s.isAnimating)
  /\ checkCollision(s.player, s.board, Off(0, 1))
  /\ s.player.pos.y >= 1

KeyLands(s, key) ==
  /\ ~(s.isGameOver \/ s.player.collided \/ s.isAnimating \/ s.isPaused)
  /\ \/ key = " "
     \/ key = "ArrowDown" /\ DropLands(s)

\* an event that counts for MaxEvents happens only within the bound
Count(event) ==
  /\ event => nEvents < MaxEvents
  /\ nEvents' = IF event THEN nEvents + 1 ELSE nEvents

\* the draws of randomTetromino a handler makes: one only when a piece lands
Draws(lands) == IF lands THEN randomTetromino ELSE {nextTetromino}

\* the callback of the gravity interval
GravityTick ==
  /\ dropInterval.armed > 0
  /\ Count(DropLands(Cur))
  /\ \E nextPiece \in Draws(DropLands(Cur)) : Handle(drop(Cur, nextPiece))
  /\ UNCHANGED probe

\* the keydown handler called with one key
KeyPress(key) ==
  /\ Count(KeyLands(Cur, key))
  /\ \E nextPiece \in Draws(KeyLands(Cur, key)) : Handle(handleKeyDown(Cur, key, nextPiece))
  /\ UNCHANGED probe

KeyDown == \E key \in KeyNames : KeyPress(key)

\* the Pause / Resume button
TogglePause ==
  /\ Handle(togglePause(Cur))
  /\ UNCHANGED <<nEvents, probe>>

Blur ==
  /\ Handle(onBlur(Cur))
  /\ UNCHANGED <<nEvents, probe>>

\* the Test Line Clear button
TestLineClear ==
  /\ Count(~(isGameOver \/ isAnimating))
  /\ Handle(testLineClear(Cur))
  /\ UNCHANGED probe

ClearTimer ==
  /\ \E t \in timers, r \in Rand :
        /\ t.stage = "clear"
        /\ Handle(clearCallback(Cur, t, r))
  /\ UNCHANGED <<nEvents, probe>>

SweepTimer ==
  /\ \E t \in timers :
        /\ t.stage = "sweep"
        /\ \E nextPiece \in Draws(t.kind = "lock") : Handle(sweepCallback(Cur, t, nextPiece))
  /\ UNCHANGED <<nEvents, probe>>

\* one requestAnimationFrame callback: runPhysics steps the particles and
\* requests the next frame
PhysicsFrame ==
  /\ physicsFrame.pending > 0
  /\ Count(particles # << >>)
  /\ Handle([Cur EXCEPT !.particles = runPhysics(@),
                        !.physicsFrame = [pending |-> (@.pending - 1) + 1, ref |-> TRUE]])
  /\ UNCHANGED probe

Next ==
  \/ StartGame
  \/ GravityTick
  \/ KeyDown
  \/ TogglePause
  \/ Blur
  \/ TestLineClear
  \/ ClearTimer
  \/ SweepTimer
  \/ PhysicsFrame

Spec == Init /\ [][Next]_vars
\* ---------------------------------------------------------- properties
\* the step in which the callback of timer t runs
ClearFires(t) ==
  t \in timers /\ t.stage = "clear" /\ timers' = (timers \ {t}) \cup {[t EXCEPT !.stage = "sweep"]}
SweepFires(t) ==
  t \in timers /\ t.stage = "sweep" /\ timers' = timers \ {t}

\* C1: when the sweep of a pipeline started by a lock that completed n rows
\* has run, score is LINE_POINTS[n-1] * level (the level at the lock) above
\* its value at the lock, and lines is n above its value at the lock
C1_LockScoresExactly ==
  [][\A t \in timers :
       (t.kind = "lock" /\ SweepFires(t))
         => /\ Cardinality(t.rows) \in 1..4
            /\ score' = t.score0 + LINE_POINTS[Cardinality(t.rows)] * t.level
            /\ lines' = t.lines0 + Cardinality(t.rows)]_vars

\* C2: when the sweep of a pipeline that cleared n rows has run, the grid is
\* n empty rows followed by the rows of the post-lock grid that were not
\* cleared, in their order and unchanged: every such row has moved down by
\* the number of cleared rows that were below it
C2_SweepShiftsRows ==
  [][\A t \in timers :
       SweepFires(t) =>
         LET n == Cardinality(t.rows)
         IN  /\ DOMAIN board' = 0..(BOARD_HEIGHT - 1)
             /\ \A y \in 0..(n - 1) : board'[y] = EmptyRow
             /\ \A y \in (DOMAIN t.newBoard) \ t.rows :
                   board'[y + Cardinality({c \in t.rows : c > y})] = t.newBoard[y]]_vars

\* a sweep has run and a row that was not cleared survives below the new
\* empty rows
C2_Witness ==
  /\ lines > 0
  /\ timers = {}
  /\ board[0] = EmptyRow
  /\ \E y \in DOMAIN board : board[y] # EmptyRow

\* C3: after startGame has run while a pipeline was in its Cracking or
\* Clearing phase, the callbacks of that pipeline leave the grid, score,
\* lines, active piece and next piece of the new game as they are
C3_RestartCancelsPipeline ==
  [][\A t \in timers :
       (t.restarted /\ (ClearFires(t) \/ SweepFires(t)))
         => UNCHANGED <<board, score, lines, player, nextTetromino>>]_vars

\* C4: while the game is paused or a line-clear animation runs, no gravity
\* tick and no key changes the position or shape of the active piece or
\* the grid
C4_SuspendedInput ==
  [][((isPaused \/ isAnimating) /\ (GravityTick \/ KeyDown))
       => /\ player'.pos = player.pos
          /\ player'.tetromino = player.tetromino
          /\ board' = board]_vars

\* a paused game with a piece that has started to fall and could move
C4_Witness ==
  /\ isPaused
  /\ ~isGameOver
  /\ ~isAnimating
  /\ player.pos.y >= 1
  /\ ~checkCollision(player, board, Off(0, 1))
\* the state a game is in after nine test line clears, each requested before
\* the gravity interval re-armed by the previous sweep has fired, once the
\* particles have expired during a pause that has since ended
InitLate ==
  /\ probe = NoProbe
  /\ board = createBoard
  /\ \E firstPiece \in randomTetromino : player = Spawn(firstPiece)
  /\ nextTetromino \in randomTetromino
  /\ score = 9 * LINE_POINTS[1]
  /\ lines = 9
  /\ level = 1
  /\ highScore = 9 * LINE_POINTS[1]
  /\ isGameOver = FALSE
  /\ isPaused = FALSE
  /\ particles = << >>
  /\ isAnimating = FALSE
  /\ backgroundTheme \in ThemeChoices
  /\ timers = {}
  /\ dropInterval = OneInterval
  /\ physicsFrame = OneFrame
  /\ nEvents = 0

LateSpec == InitLate /\ [][Next]_vars

\* C5: level is floor(lines / 10) + 1 in every state
C5_LevelFollowsLines == level = (lines \div 10) + 1

\* the tenth line has been cleared and the level has risen
C5_Witness == lines >= 10 /\ level = 2

\* a piece locks without completing a row (the only handlers of keys and of
\* the gravity interval that change the grid are the locking ones)
LockNoClear == board' # board /\ ~isAnimating' /\ (GravityTick \/ KeyDown)

\* the piece q spawned in this step collides where it spawns
BlockedAtLock == LockNoClear /\ checkCollision(Spawn(nextTetromino), board', Off(0, 0))
BlockedAtSweep(t) ==
  SweepFires(t) /\ t.kind = "lock" /\ checkCollision(Spawn(t.nextTetromino), board', Off(0, 0))

\* the cells in which two grids differ
Changed(b1, b2) == {c \in (DOMAIN b1) \X (0..(BOARD_WIDTH - 1)) : b1[c[1]][c[2]] # b2[c[1]][c[2]]}

\* C6: when the piece spawned after a lock without line clear, or at the end
\* of the sweep, collides at its spawn position, the game becomes GameOver,
\* the active piece keeps its shape and position, the queued next piece stays
\* queued, the grid is the one the merge of the landed piece (or the sweep)
\* produced, and the grid does not change while the game stays over
C6_BlockedSpawnEndsGame ==
  [][/\ (BlockedAtLock \/ \E t \in timers : BlockedAtSweep(t))
          => /\ isGameOver'
             /\ player'.pos = player.pos
             /\ player'.tetromino = player.tetromino
             /\ nextTetromino' = nextTetromino
     /\ BlockedAtLock
          => /\ \E d \in 0..BOARD_HEIGHT :
                   board' = MergePiece(board, [player EXCEPT !.pos.y = @ + d])
             /\ \A c \in Changed(board, board') : board'[c[1]][c[2]][2] = "merged"
     /\ \A t \in timers : BlockedAtSweep(t) => board' = SweepRows(t.newBoard, t.rows)
     /\ (isGameOver /\ isGameOver') => board' = board]_vars

\* the game is over because the piece spawned after a lock was blocked
C6_Witness ==
  /\ isGameOver
  /\ checkCollision(Spawn(nextTetromino), board, Off(0, 0))
  /\ player.pos.y >= 1 \/ player.collided

\* a gravity tick or soft drop whose move by (0,+1) collides
DropCollides ==
  /\ ~(isPaused \/ isGameOver \/ isAnimating)
  /\ checkCollision(player, board, Off(0, 1))
  /\ GravityTick \/ (~player.collided /\ KeyPress("ArrowDown"))

\* the cells of the active piece are merged (or cracking) in the next grid
PieceLocked ==
  \A c \in Occupied(player.tetromino) :
    LET y == c[1] + player.pos.y
        x == c[2] + player.pos.x
    IN  /\ y \in DOMAIN board' /\ x \in 0..(BOARD_WIDTH - 1)
        /\ board'[y][x][1] = player.tetromino[c[1]][c[2]]
        /\ board'[y][x][2] \in {"merged", "cracking"}

\* C7 as claimed: GameOver is entered only when a newly spawned piece
\* collides at its spawn position, and a gravity tick or soft drop whose
\* move by (0,+1) collides always locks the piece
C7_OnlyBlockedSpawnEndsGame ==
  [][/\ (~isGameOver /\ isGameOver') => (BlockedAtLock \/ \E t \in timers : BlockedAtSweep(t))
     /\ DropCollides => PieceLocked]_vars

\* C7 as amended: GameOver is entered only when a newly spawned piece
\* collides at its spawn position, or when a gravity tick or soft drop
\* collides while the piece is at position.y < 1 (the piece is then not
\* merged); with position.y >= 1 such a tick or drop always locks the piece
C7_BlockedSpawnOrTopDropEndsGame ==
  [][/\ (~isGameOver /\ isGameOver')
          => \/ BlockedAtLock
             \/ \E t \in timers : BlockedAtSweep(t)
             \/ DropCollides /\ player.pos.y < 1 /\ board' = board
     /\ (DropCollides /\ player.pos.y >= 1) => PieceLocked
     /\ (DropCollides /\ player.pos.y < 1) => (isGameOver' /\ board' = board)]_vars

\* the game has ended on a drop at the top: the piece is not merged
C7_Witness ==
  /\ isGameOver
  /\ ~player.collided
  /\ player.pos.y = 0
  /\ Occupied(player.tetromino) # {}
  /\ ~checkCollision(player, board, Off(0, 0))
  /\ checkCollision(player, board, Off(0, 1))

\* C8: while the game is over, only startGame changes the grid, the active
\* piece, the score, lines, level or the particle collection
C8_GameOverFreezes ==
  [][isGameOver => (StartGame \/ UNCHANGED <<board, player, score, lines, level, particles>>)]_vars

\* the game is over with particles of the last line clear still alive
C8_Witness == isGameOver /\ particles # << >> /\ lines > 0
\* -------------------------------------------- checkCollision on its own
\* rows a grid can hold: empty, a merged cell at the left, a cracking cell
\* at the right
LeftRow == [x \in 0..(BOARD_WIDTH - 1) |-> IF x = 0 THEN <<"I", "merged">> ELSE EmptyCell]
RightRow == [x \in 0..(BOARD_WIDTH - 1) |-> IF x = BOARD_WIDTH - 1 THEN <<"O", "cracking">> ELSE EmptyCell]

\* the grid whose k bottom rows are r, cut to its h top rows
StackBoard(r, k, h) == [y \in 0..(h - 1) |-> IF y >= BOARD_HEIGHT - k THEN r ELSE EmptyRow]

TestBoards ==
  {StackBoard(r, k, h) : r \in {LeftRow, RightRow}, k \in 0..BOARD_HEIGHT, h \in 0..BOARD_HEIGHT}

TestPlayers ==
  {[pos |-> Off(x, y), tetromino |-> t, collided |-> FALSE] :
     x \in (-1)..(BOARD_WIDTH - 1), y \in (-2)..(BOARD_HEIGHT - 1), t \in randomTetromino}

TestOffsets == {Off(dx, dy) : dx \in {-1, 0, 1}, dy \in {0, 1}}

InitCollision ==
  /\ probe = NoProbe
  /\ board \in TestBoards
  /\ player \in TestPlayers
  /\ nextTetromino \in randomTetromino
  /\ score = 0
  /\ lines = 0
  /\ level = 1
  /\ highScore = 0
  /\ isGameOver = TRUE
  /\ isPaused = FALSE
  /\ particles = << >>
  /\ isAnimating = FALSE
  /\ backgroundTheme = "SPACE"
  /\ timers = {}
  /\ dropInterval = NoInterval
  /\ physicsFrame = NoFrame
  /\ nEvents = 0

\* one call of checkCollision
Probe ==
  /\ \E o \in TestOffsets : probe' = [offset |-> o, outcome |-> collisionOutcome(player, board, o)]
  /\ UNCHANGED <<board, player, nextTetromino, score, lines, level, highScore,
                 isGameOver, isPaused, particles, isAnimating, backgroundTheme,
                 timers, dropInterval, physicsFrame, nEvents>>

CollisionSpec == InitCollision /\ [][Probe]_vars

\* the grid coordinates <<y, x>> of the occupied cells in the probed placement
Placed ==
  {<<c[1] + player.pos.y + probe.offset.y, c[2] + player.pos.x + probe.offset.x>> :
     c \in Occupied(player.tetromino)}

Probed == probe.outcome # "none"

\* C9: checkCollision returns true, without faulting, whenever an occupied
\* cell of the placement has x < 0, x >= BOARD_WIDTH or y >= BOARD_HEIGHT or
\* refers to a row the grid does not have
C9_OutsideCollides ==
  (Probed /\ \E c \in Placed :
               c[2] < 0 \/ c[2] >= BOARD_WIDTH \/ c[1] >= BOARD_HEIGHT \/ c[1] \notin DOMAIN board)
    => probe.outcome = "true"

\* a placement inside the bounds that reaches a missing row of a cut grid
C9_Witness ==
  /\ Probed
  /\ probe.outcome = "true"
  /\ \A c \in Placed : c[2] \in 0..(BOARD_WIDTH - 1) /\ c[1] \in 0..(BOARD_HEIGHT - 1)
  /\ \E c \in Placed : c[1] \notin DOMAIN board
  /\ \A c \in Placed : c[1] \in DOMAIN board => board[c[1]][c[2]][2] = "clear"

\* the cells of the placement are within the columns and each is above the
\* grid or on a Clear cell
AboveOrClear ==
  \A c \in Placed :
    /\ c[2] \in 0..(BOARD_WIDTH - 1)
    /\ c[1] < 0 \/ (c[1] \in DOMAIN board /\ board[c[1]][c[2]][2] = "clear")

\* C10 as claimed: a placement whose occupied cells are within the columns
\* and each above the grid or on a Clear cell does not collide
C10_AbovePermitted == (Probed /\ AboveOrClear) => probe.outcome = "false"

\* C10 as amended: a placement whose occupied cells all land on Clear cells
\* of rows the grid has does not collide; one with an occupied cell above
\* the grid (y < 0) collides
C10_AboveCollides ==
  /\ (Probed /\ \A c \in Placed :
                  /\ c[2] \in 0..(BOARD_WIDTH - 1)
                  /\ c[1] \in DOMAIN board
                  /\ board[c[1]][c[2]][2] = "clear")
       => probe.outcome = "false"
  /\ (Probed /\ \E c \in Placed : c[1] < 0) => probe.outcome = "true"

\* a placement reaching above the grid, otherwise on Clear cells, collides
C10_Witness ==
  /\ Probed
  /\ AboveOrClear
  /\ \E c \in Placed : c[1] < 0
  /\ \E c \in Placed : c[1] >= 0
  /\ probe.outcome = "true"
\* ------------------------------------------------ moves, rotation, drop
\* the states in which handleKeyDown passes a key on to the piece
Accepting == ~(isGameOver \/ player.collided \/ isAnimating \/ isPaused)

\* the state after the handler of key and the effects of its render
AfterKey(key) == Effects(handleKeyDown(Cur, key, nextTetromino))

MoveKey(dir) == IF dir = -1 THEN "ArrowLeft" ELSE "ArrowRight"

\* C11: a manual move by dir changes position.x by dir and nothing else when
\* the offset (dir,0) does not collide, and changes nothing when it does
C11_MoveFrame ==
  Accepting =>
    \A dir \in {-1, 1} :
      AfterKey(MoveKey(dir)) =
        IF checkCollision(player, board, Off(dir, 0)) THEN Cur
        ELSE [Cur EXCEPT !.player.pos.x = @ + dir]

\* the piece has been moved off its spawn column up to the right wall,
\* where the next move to the right is refused
C11_Witness ==
  /\ Accepting
  /\ Occupied(player.tetromino) # {}
  /\ player.pos.x > Spawn(player.tetromino).pos.x
  /\ checkCollision(player, board, Off(1, 0))
  /\ ~checkCollision(player, board, Off(-1, 0))

\* the active piece with its shape rotated
Rotated == [player EXCEPT !.tetromino = rotate(@)]

\* C12: a rotation attempt for which no kick position is accepted leaves
\* the piece and the rest of the game state as they were
C12_RejectedRotation ==
  (Accepting /\ ~KickSearch(Rotated, board, 1).committed) => AfterKey("ArrowUp") = Cur

\* a piece whose rotation is rejected
C12_Witness ==
  /\ Accepting
  /\ Occupied(player.tetromino) # {}
  /\ ~checkCollision(player, board, Off(0, 0))
  /\ ~KickSearch(Rotated, board, 1).committed

\* the x-offset reached after the steps 0, +1, -2, +3, -4, ... up to step k
KickDelta(k) == IF k % 2 = 1 THEN (k + 1) \div 2 ELSE -(k \div 2)

\* the steps, of magnitude up to the piece width, whose position is free
FreeKicks ==
  {k \in 0..Cols(player.tetromino) :
     ~checkCollision([Rotated EXCEPT !.pos.x = @ + KickDelta(k)], board, Off(0, 0))}

\* C13: rotation commits the first free position in the order of the steps
\* 0, +1, -2, +3, -4, ..., and rejects only when every position reached by
\* a step of magnitude up to the piece width collides
C13_KickOrder ==
  Accepting =>
    AfterKey("ArrowUp").player =
      IF FreeKicks = {} THEN player
      ELSE LET k == CHOOSE i \in FreeKicks : \A j \in FreeKicks : i <= j
           IN  [Rotated EXCEPT !.pos.x = @ + KickDelta(k)]

\* the cells of the active piece lowered by k rows hold the piece in the
\* next grid and no other cell changes its content
LockedAt(k) ==
  /\ \A c \in Occupied(player.tetromino) :
       LET y == c[1] + player.pos.y + k
           x == c[2] + player.pos.x
       IN  /\ y \in DOMAIN board' /\ x \in 0..(BOARD_WIDTH - 1)
           /\ board'[y][x][1] = player.tetromino[c[1]][c[2]]
           /\ board'[y][x][2] \in {"merged", "cracking"}
  /\ \A c \in Changed(board, board') :
       \/ <<c[1] - player.pos.y - k, c[2] - player.pos.x>> \in Occupied(player.tetromino)
       \/ board'[c[1]][c[2]] = <<board[c[1]][c[2]][1], "cracking">>

\* C14: a hard drop locks the piece k rows lower, k the largest value with
\* the offsets (0,1)..(0,k) free; x and shape are kept and the piece takes
\* no further input
C14_HardDropLands ==
  [][(Accepting /\ KeyPress(" "))
       => /\ \E k \in 0..BOARD_HEIGHT :
               /\ \A j \in 1..k : ~checkCollision(player, board, Off(0, j))
               /\ checkCollision(player, board, Off(0, k + 1))
               /\ LockedAt(k)
          /\ \/ player'.collided /\ player'.pos = player.pos /\ player'.tetromino = player.tetromino
             \/ player' = Spawn(nextTetromino)]_vars

\* a piece dropped from the top lies on the floor and the next one is up
C14_Witness ==
  /\ Accepting
  /\ lines = 0
  /\ player = Spawn(player.tetromino)
  /\ \E x \in 0..(BOARD_WIDTH - 1) : board[BOARD_HEIGHT - 1][x][2] = "merged"
  /\ board[BOARD_HEIGHT - 2] = EmptyRow \/ board[BOARD_HEIGHT - 3] = EmptyRow
\* ------------------------------------------- the particle collection on its own
\* values of Math.random() at the ends and in the middle of [0, 1)
RandAll == {0, FP \div 2, FP - 1}

\* a collection of n particles left by earlier line clears: every third one
\* a debris at rest above the left cell of the bottom row, the others
\* secondary particles with some life left
OldParticle(i) ==
  IF i % 3 = 0
  THEN [type |-> "debris", x |-> FP \div 2 + i,
        y |-> (BOARD_HEIGHT - 1) * FP - FP \div 10 - FP \div 200,
        vx |-> 0, vy |-> 0, boundingRadius |-> FP \div 10,
        rotation |-> i, rotationSpeed |-> 0]
  ELSE [type |-> IF i % 3 = 1 THEN "smoke" ELSE "leaf",
        life |-> (1 + (i % 180)) * FP, initialLife |-> 180 * FP]

OldParticles(n) == [i \in 1..n |-> OldParticle(i)]

OldLens == {0, MAX_PARTICLES - 40}

FullRow == [x \in 0..(BOARD_WIDTH - 1) |-> <<"T", "merged">>]

\* grids whose bottom rows are about to be cleared: full rows, and a row
\* with one non-empty cell
DebrisBoards ==
  {StackBoard(FullRow, 1, BOARD_HEIGHT), StackBoard(FullRow, 2, BOARD_HEIGHT),
   StackBoard(LeftRow, 2, BOARD_HEIGHT)}

DebrisRows == {{BOARD_HEIGHT - 1}, {BOARD_HEIGHT - 2, BOARD_HEIGHT - 1}}

InitParticles ==
  /\ probe = NoProbe
  /\ board \in DebrisBoards
  /\ player = Spawn(TETROMINOES.O)
  /\ nextTetromino = TETROMINOES.O
  /\ score = 0
  /\ lines = 0
  /\ level = 1
  /\ highScore = 0
  /\ isGameOver = FALSE
  /\ isPaused = TRUE
  /\ particles \in {OldParticles(n) : n \in OldLens}
  /\ isAnimating = FALSE
  /\ backgroundTheme \in {THEMES[i] : i \in 1..Len(THEMES)}
  /\ timers = {}
  /\ dropInterval = NoInterval
  /\ physicsFrame = OneFrame
  /\ nEvents = 0

\* one createDebris call; probe keeps the call's newParticles array
SpawnDebris ==
  /\ nEvents < MaxEvents
  /\ nEvents' = nEvents + 1
  /\ \E r \in RandAll, rows \in DebrisRows :
       /\ particles' = createDebris(particles, rows, board, backgroundTheme, r)
       /\ probe' = [offset |-> Off(0, 0), outcome |-> "spawn", rows |-> rows,
                    emitted |-> newParticles(rows, board, backgroundTheme, r)]
  /\ UNCHANGED <<board, player, nextTetromino, score, lines, level, highScore,
                 isGameOver, isPaused, isAnimating, backgroundTheme,
                 timers, dropInterval, physicsFrame>>

\* one runPhysics call
PhysicsStep ==
  /\ nEvents < MaxEvents
  /\ particles # << >>
  /\ nEvents' = nEvents + 1
  /\ particles' = runPhysics(particles)
  /\ probe' = [offset |-> Off(0, 0), outcome |-> "physics"]
  /\ UNCHANGED <<board, player, nextTetromino, score, lines, level, highScore,
                 isGameOver, isPaused, isAnimating, backgroundTheme,
                 timers, dropInterval, physicsFrame>>

ParticleNext == SpawnDebris \/ PhysicsStep

ParticleSpec == InitParticles /\ [][ParticleNext]_vars

Spawned == probe.outcome = "spawn"

\* C15: the particle collection never holds more than MAX_PARTICLES entries
C15_ParticleCap == Len(particles) <= MAX_PARTICLES

\* a spawn event has filled the collection to the cap
C15_Witness == Spawned /\ Len(probe.emitted) > 0 /\ Len(particles) = MAX_PARTICLES

\* C16: after a spawn event the collection is the last MAX_PARTICLES
\* elements, in order, of the previous collection followed by the newly
\* spawned particles
C16_OldestEvictedFirst ==
  [][SpawnDebris
       => LET all == particles \o probe'.emitted
              n == Len(all)
              m == IF n <= MAX_PARTICLES THEN n ELSE MAX_PARTICLES
          IN  /\ Len(particles') = m
              /\ \A i \in 1..m : particles'[i] = all[n - m + i]]_vars

\* a spawn event has evicted some of the old particles and kept the others
C16_Witness ==
  /\ Spawned
  /\ Len(particles) = MAX_PARTICLES
  /\ Len(probe.emitted) \in 1..(MAX_PARTICLES - 1)
  /\ particles[1] \in {OldParticle(i) : i \in 2..MAX_PARTICLES}

\* the non-empty cells of the rows of the last spawn event
SpawnCells ==
  {c \in probe.rows \X (0..(BOARD_WIDTH - 1)) : board[c[1]][c[2]][1] # "0"}

\* the number of entries of q that satisfy Test
CountOf(q, Test(_)) == Cardinality({i \in DOMAIN q : Test(q[i])})

\* the number of Debris particles emitted inside cell c
DebrisIn(c) ==
  CountOf(probe.emitted,
          LAMBDA p : p.type = "debris" /\ p.y \div FP = c[1] /\ p.x \div FP = c[2])

\* C17: a spawn event emits between 8 and 12 Debris particles for each
\* non-empty cell of each cleared row and none for an empty cell, hence
\* between 8 and 12 times the row width for one full row
C17_DebrisPerCell ==
  Spawned =>
    /\ \A c \in probe.rows \X (0..(BOARD_WIDTH - 1)) :
         IF c \in SpawnCells THEN DebrisIn(c) \in 8..12 ELSE DebrisIn(c) = 0
    /\ CountOf(probe.emitted, LAMBDA p : p.type = "debris")
         \in (8 * Cardinality(SpawnCells))..(12 * Cardinality(SpawnCells))

\* a full row has been cleared with the largest fragment count, and a row
\* with empty cells has been cleared too
C17_Witness ==
  /\ Spawned
  /\ \E c \in SpawnCells : DebrisIn(c) = 12
  /\ \E c \in probe.rows \X (0..(BOARD_WIDTH - 1)) : c \notin SpawnCells

Secondaries == CountOf(probe.emitted, LAMBDA p : p.type # "debris")

KindCount(kind) == CountOf(probe.emitted, LAMBDA p : p.type = kind)

ThemeKind ==
  IF backgroundTheme = "FOREST" THEN "leaf"
  ELSE IF backgroundTheme = "SPACE" THEN "sparkle" ELSE "smoke"

Resting(p) ==
  /\ p.type = "debris"
  /\ p.vx = 0 /\ p.vy = 0 /\ p.rotationSpeed = 0
  /\ LET checkY == (p.y + p.boundingRadius + FP \div 100) \div FP
         gridX == p.x \div FP
     IN  /\ checkY \in 0..(BOARD_HEIGHT - 1) /\ gridX \in 0..(BOARD_WIDTH - 1)
         /\ board[checkY][gridX][2] = "merged"

\* C19: a Debris particle at rest above a Merged cell has zero velocity and
\* the same position after the next physics step
C19_RestingDebrisStays ==
  [][PhysicsStep
       => \A i \in DOMAIN particles :
            Resting(particles[i]) => \E j \in DOMAIN particles' : particles'[j] = particles[i]]_vars

\* ------------------------------------------------------------ high score
\* the state of a first game after its first piece, an I, was moved into the
\* left column and hard-dropped
InitStack ==
  /\ probe = NoProbe
  /\ board = [y \in 0..(BOARD_HEIGHT - 1) |-> [x \in 0..(BOARD_WIDTH - 1) |->
                IF x = 0 /\ y >= BOARD_HEIGHT - 4 THEN <<"I", "merged">> ELSE EmptyCell]]
  /\ \E piece \in randomTetromino : player = Spawn(piece)
  /\ nextTetromino \in randomTetromino
  /\ score = 0
  /\ lines = 0
  /\ level = 1
  /\ highScore = 0
  /\ isGameOver = FALSE
  /\ isPaused = FALSE
  /\ particles = << >>
  /\ isAnimating = FALSE
  /\ backgroundTheme \in ThemeChoices
  /\ timers = {}
  /\ dropInterval = OneInterval
  /\ physicsFrame = OneFrame
  /\ nEvents = 0

StackSpec == InitStack /\ [][Next]_vars

\* C20: once a score change has settled the high score is at least the
\* score, also when the sweep that adds the points ends the game; the high
\* score never decreases and startGame does not reset it
C20_HighScoreTracksScore ==
  [][highScore' >= score' /\ highScore' >= highScore]_vars

\* ------------------------------------------------------ grid invariants
Cells(b) == {b[y][x] : y \in DOMAIN b, x \in DOMAIN b[0]}

\* C21: in the authoritative grid every cell with an empty value has status
\* clear, every cell with status merged or cracking has a non-empty value,
\* and no cell has status ghost
C21_GridCellStatuses ==
  \A c \in Cells(board) :
     /\ c[1] = "0" => c[2] = "clear"
     /\ c[2] \in {"merged", "cracking"} => c[1] # "0"
     /\ c[2] # "ghost"

\* the grid holds a merged cell next to cracking rows while the display
\* shows the ghost of the active piece
C21_Witness ==
  /\ \E c \in Cells(board) : c[2] = "merged"
  /\ \E c \in Cells(board) : c[2] = "cracking"
  /\ \E c \in Cells(displayBoard(Cur)) : c[2] = "ghost"

\* the pipeline is in its Cracking phase until the first callback of its
\* timer has run
CrackingPhase == \E t \in timers : t.stage = "clear"
PendingRows == UNION {t.rows : t \in {u \in timers : u.stage = "clear"}}

\* C22: a grid cell has status cracking exactly when the pipeline is in its
\* Cracking phase and the cell lies in a row pending removal (so no cell is
\* cracking in the other phases), and a cracking row has the cell values it
\* had after the lock
C22_CrackingOnlyWhilePending ==
  /\ \A y \in DOMAIN board : \A x \in DOMAIN board[y] :
        board[y][x][2] = "cracking" <=> (CrackingPhase /\ y \in PendingRows)
  /\ \A t \in timers : t.stage = "clear" =>
        \A y \in t.rows : \A x \in DOMAIN board[y] : board[y][x][1] = t.newBoard[y][x][1]

\* C23: in every reachable state the grid has exactly BOARD_HEIGHT rows of
\* exactly BOARD_WIDTH cells each
C23_GridDimensions ==
  /\ DOMAIN board = 0..(BOARD_HEIGHT - 1)
  /\ \A y \in DOMAIN board : DOMAIN board[y] = 0..(BOARD_WIDTH - 1)

\* a full pipeline run has ended: rows were removed and the grid is whole
C23_Witness ==
  /\ score > 0
  /\ ~isAnimating
  /\ timers = {}
  /\ Rows(board) = BOARD_HEIGHT

\* ------------------------------------------------------------ counters
\* C24: in every step that is not a restart, score, lines and level do not
\* decrease
C24_CountersNeverDecrease ==
  [][(score' >= score /\ lines' >= lines /\ level' >= level) \/ StartGame]_vars

\* a sweep has added its points and its line, and the level has risen
C24_Witness ==
  /\ score > 9 * LINE_POINTS[1]
  /\ lines > 9
  /\ level > 1

\* ------------------------------------------------------------ pipeline
\* the step of a lock that completes rows: the pipeline of timer t begins
PipelineBegins(t) ==
  timers = {} /\ timers' = {t} /\ t.kind = "lock" /\ t.stage = "clear"

\* C25: after a lock that completes rows the grid goes through these states
\* in this order, and through no other: at the lock the full rows of the
\* merged grid are cracking; it stays so until the first callback, which
\* blanks those rows and leaves every other row where it is; it stays so
\* until the nested callback, which removes the rows and shifts the rest
\* down; then the pipeline is idle
C25_PipelineOrder ==
  [][/\ \A t \in timers' :
          PipelineBegins(t) => board' = CrackRows(t.newBoard, t.rows) /\ isAnimating'
     /\ \A t \in {u \in timers : u.kind = "lock"} :
          /\ t.stage = "clear" => board = CrackRows(t.newBoard, t.rows)
          /\ t.stage = "sweep" => board = BlankRows(t.newBoard, t.rows)
          /\ ClearFires(t) => board' = BlankRows(board, t.rows) /\ isAnimating'
          /\ SweepFires(t) =>
                board' = SweepRows(board, t.rows) /\ ~isAnimating' /\ timers' = {}
          /\ ~(ClearFires(t) \/ SweepFires(t)) => board' = board /\ isAnimating']_vars

\* ----------------------------------------------------------------- lock
\* a key or a gravity tick locks the active piece in this step
LockStep == nEvents' # nEvents /\ (GravityTick \/ KeyDown)

\* the cells the occupied cells of the active piece cover d rows lower
Covered(d) ==
  {<<c[1] + player.pos.y + d, c[2] + player.pos.x>> : c \in Occupied(player.tetromino)}

PieceKind == CHOOSE k \in {player.tetromino[c[1]][c[2]] : c \in Occupied(player.tetromino)} : TRUE

\* the grid with the cells of cs set to (piece kind, merged)
WithMerged(cs) ==
  [y \in DOMAIN board |-> [x \in DOMAIN board[y] |->
     IF <<y, x>> \in cs THEN <<PieceKind, "merged">> ELSE board[y][x]]]

EntirelyMerged(b) == {y \in DOMAIN b : \A x \in DOMAIN b[y] : b[y][x][2] = "merged"}

\* C26: a lock sets exactly the cells covered by the piece at its lock
\* position (where it cannot go one row lower) to (piece kind, merged) and
\* leaves every other cell as it is; the pipeline is entered exactly when
\* a row of that grid is entirely merged, and then it clears exactly the
\* rows that are; otherwise the queued piece is spawned in the same step
\* (installed, or found blocked, which ends the game)
C26_LockMergesAndBranches ==
  [][LockStep =>
       \E d \in 0..BOARD_HEIGHT :
          LET lockGrid == WithMerged(Covered(d))
              full == EntirelyMerged(lockGrid)
          IN  /\ Covered(d) \subseteq (DOMAIN board) \X (0..(BOARD_WIDTH - 1))
              /\ checkCollision([player EXCEPT !.pos.y = @ + d], board, Off(0, 1))
              /\ IF full # {}
                 THEN /\ isAnimating'
                      /\ \E t \in timers' \ timers :
                            t.stage = "clear" /\ t.rows = full /\ t.newBoard = lockGrid
                      /\ board' = CrackRows(lockGrid, full)
                      /\ player'.pos = player.pos /\ player'.tetromino = player.tetromino
                 ELSE /\ ~isAnimating'
                      /\ timers' = timers
                      /\ board' = lockGrid
                      /\ \/ ~isGameOver' /\ player' = Spawn(nextTetromino)
                         \/ /\ isGameOver'
                            /\ checkCollision(Spawn(nextTetromino), lockGrid, Off(0, 0))
                            /\ player'.pos = player.pos]_vars

\* a lock has completed two rows at once and the pipeline holds both
C26_Witness ==
  \E t \in timers : t.kind = "lock" /\ t.stage = "clear" /\ Cardinality(t.rows) = 2

\* ---------------------------------------------------------------- spawn
\* the piece of shape q where a spawn places it
AtSpawn(q) ==
  [pos |-> [x |-> (BOARD_WIDTH \div 2) - (Cols(q) \div 2), y |-> 0],
   tetromino |-> q, collided |-> FALSE]

\* the two outcomes of a spawn of the queued shape q: q becomes the active
\* piece at the spawn position, or the piece and the queue stay as they are
\* and the game ends
SpawnOutcome(q) ==
  \/ player' = AtSpawn(q)
  \/ /\ player'.tetromino = player.tetromino
     /\ player'.pos = player.pos
     /\ nextTetromino' = nextTetromino
     /\ isGameOver'

\* C27: the piece that becomes active after a lock, in the step of the lock
\* or in the nested callback of its pipeline, has the shape that was queued
\* when the piece locked and stands at x = BOARD_WIDTH / 2 -
\* floor(width / 2), y = 0; the queue changes only in a step that installs
\* a piece at its spawn position
C27_SpawnTakesQueuedPiece ==
  [][/\ (LockStep /\ ~isAnimating') => SpawnOutcome(nextTetromino)
     /\ \A t \in timers : (t.kind = "lock" /\ SweepFires(t)) => SpawnOutcome(t.nextTetromino)
     /\ nextTetromino' # nextTetromino => player' = AtSpawn(player'.tetromino)]_vars

\* the sweep of a lock that completed two rows has installed the queued
\* piece
C27_Witness ==
  /\ score = LINE_POINTS[2]
  /\ timers = {}
  /\ ~isGameOver
  /\ player = AtSpawn(player.tetromino)

\* ---------------------------------------------------------------- ghost
\* the row the ghost projection of the current render computes
GhostRow == GhostY(player, board, player.pos.y)

\* the grid a hard drop made in the current state hands to the pipeline or
\* to the spawn
HardDropGrids ==
  LET after == hardDrop([Cur EXCEPT !.timers = {}], nextTetromino)
  IN  IF after.timers = {} THEN {after.board} ELSE {t.newBoard : t \in after.timers}

\* C28: while the game is not over, the row computed by the ghost
\* projection is the row at which a hard drop made in the same state locks
\* the piece, the ghost is drawn only on cells that hard drop would write,
\* and the display differs from the grid, which the render leaves as it is,
\* only where the ghost or the piece is drawn
C28_GhostIsHardDropRow ==
  ~isGameOver =>
    LET locked == MergePiece(board, [player EXCEPT !.pos.y = GhostRow])
        shown == displayBoard(Cur)
    IN  /\ locked \in HardDropGrids
        /\ GhostRow >= player.pos.y
        /\ \A y \in DOMAIN board : \A x \in DOMAIN board[y] :
              /\ shown[y][x][2] = "ghost" => locked[y][x] # board[y][x]
              /\ shown[y][x] # board[y][x] =>
                    \/ <<y - GhostRow, x - player.pos.x>> \in Occupied(player.tetromino)
                    \/ <<y - player.pos.y, x - player.pos.x>> \in Occupied(player.tetromino)

\* the ghost is shown below the active piece, above a stack
C28_Witness ==
  /\ ~isGameOver
  /\ ~isAnimating
  /\ GhostRow > player.pos.y + 1
  /\ GhostRow + Rows(player.tetromino) < BOARD_HEIGHT
  /\ \E c \in Cells(displayBoard(Cur)) : c[2] = "ghost"

\* --------------------------------------------------------------- timers
\* C29: at most one gravity interval is armed, it is the one
\* dropIntervalRef names (so the next run of the effect cancels it before
\* it arms another), and none is armed while the game is paused, over or
\* in a line-clear phase
C29_OneGravityInterval ==
  /\ dropInterval.armed <= 1
  /\ dropInterval.armed = 1 => dropInterval.ref /\ dropInterval.cleanup
  /\ (isPaused \/ isGameOver \/ isAnimating) => dropInterval.armed = 0

\* the interval is armed again after a pipeline has suspended it and the
\* level has changed
C29_Witness ==
  /\ dropInterval.armed = 1
  /\ level > 1
  /\ ~isGameOver

\* C30: a physics frame is pending exactly when the game is not over, also
\* while it is paused or in a line-clear phase, and never more than one
C30_PhysicsLoopWhileNotOver ==
  /\ physicsFrame.pending = IF isGameOver THEN 0 ELSE 1
  /\ physicsFrame.pending = 1 => physicsFrame.ref

\* in a line-clear phase the loop has stepped the particles the phase has
\* spawned, and its next frame is pending while the game is paused
C30_Witness ==
  /\ isPaused
  /\ isAnimating
  /\ physicsFrame.pending = 1
  /\ \E i \in DOMAIN particles :
        particles[i].type = "leaf" /\ particles[i].life < particles[i].initialLife

\* -------------------------------------------------------- physics steps
\* what a physics step never changes of a particle
Sig(p) == IF p.type = "debris" THEN <<p.type, p.boundingRadius>> ELSE <<p.type, p.initialLife>>

\* Matching a[lo..hi], in order, with elements of b from position j on,
\* each with the first element of b that has its Sig: the position of b
\* after the last match, or Len(b) + 2 when an element finds none.  An
\* embedding of a in b skips Len(b) - Len(a) elements of b in all, so every
\* search stops after that many.
RECURSIVE MatchFrom(_, _, _, _, _)
MatchFrom(a, lo, hi, b, j) ==
  IF j > Len(b) THEN Len(b) + 2
  ELSE IF lo = hi
  THEN LET last == IF j + (Len(b) - Len(a)) < Len(b) THEN j + (Len(b) - Len(a)) ELSE Len(b)
           found == {k \in j..last : Sig(b[k]) = Sig(a[lo])}
       IN  IF found = {} THEN Len(b) + 2
           ELSE (CHOOSE k \in found : \A m \in found : k <= m) + 1
  ELSE LET mid == (lo + hi) \div 2
           next == MatchFrom(a, lo, mid, b, j)
       IN  MatchFrom(a, mid + 1, hi, b, next)

\* a is b with some elements left out, as far as Sig tells
IsSubseq(a, b) ==
  /\ Len(a) <= Len(b)
  /\ Len(a) > 0 => MatchFrom(a, 1, Len(a), b, 1) <= Len(b) + 1

\* C31: a physics step leaves the grid, the active piece, the next piece,
\* score, lines, level, the phase, its timers and the pause and game-over
\* flags as they are, adds no particle, and keeps the surviving particles
\* in their previous order
C31_PhysicsTouchesOnlyParticles ==
  [][(PhysicsFrame \/ PhysicsStep)
       => /\ UNCHANGED <<board, player, nextTetromino, score, lines, level, highScore,
                         isGameOver, isPaused, isAnimating, backgroundTheme, timers,
                         dropInterval>>
          /\ Len(particles') <= Len(particles)
          /\ IsSubseq(particles', particles)]_vars

\* a physics step has moved the particles a line clear of the game spawned
C31_Witness ==
  /\ ~isGameOver
  /\ ~isPaused
  /\ isAnimating
  /\ \E i \in DOMAIN particles :
        particles[i].type = "leaf" /\ particles[i].life < particles[i].initialLife
  /\ \E i \in DOMAIN particles : particles[i].type = "debris"

NotDebris(p) == p.type # "debris"
Outlives(p) == p.type # "debris" /\ p.life - FP > 0

\* C32: a physics step lowers the life of every smoke, leaf, ember and
\* sparkle particle by exactly 1 (FP units), removes exactly those whose
\* lowered life is <= 0, and changes no other field of a sparkle it keeps
\* (its position and radius stay)
C32_SecondaryLifeCountsDown ==
  [][PhysicsStep =>
       LET before == SelectSeq(particles, Outlives)
           after == SelectSeq(particles', NotDebris)
       IN  /\ Len(after) = Len(before)
           /\ \A k \in 1..Len(after) :
                 /\ after[k].type = before[k].type
                 /\ after[k].life = before[k].life - FP
                 /\ after[k].type = "sparkle" => after[k] = [before[k] EXCEPT !.life = @ - FP]]_vars

\* two physics steps have removed the particles that had a life of 2
C32_Witness ==
  /\ probe.outcome = "physics"
  /\ Len(particles) < MAX_PARTICLES - 40
  /\ Len(particles) >= MAX_PARTICLES - 50
  /\ \A i \in DOMAIN particles : NotDebris(particles[i]) => particles[i].life > 0

\* ------------------------------------------- debris-debris collisions
\* The particle-particle collision loop of the earlier runPhysics
\* (src/unnamed/part_006); the runPhysics of src/App.tsx has no such loop.
\* A coordinate is a JavaScript number: finite (v, in FP units) or NaN.
Num(v) == [nan |-> FALSE, v |-> v]
NaN == [nan |-> TRUE, v |-> 0]

Sgn(v) == IF v > 0 THEN 1 ELSE IF v < 0 THEN -1 ELSE 0

\* d / distance, in FP units, for the pairs explored here, whose centres
\* lie on one horizontal or vertical line (distance = |dx| + |dy|, the
\* quotient is -1, 0 or 1); 0 / 0 is NaN
Quotient(d, distance) == IF distance = 0 THEN NaN ELSE Num(Sgn(d) * FP)

\* a - overlap * q and a + overlap * q
Minus(a, overlap, q) == IF a.nan \/ q.nan THEN NaN ELSE Num(a.v - Scale(overlap, q.v, FP))
Plus(a, overlap, q) == IF a.nan \/ q.nan THEN NaN ELSE Num(a.v + Scale(overlap, q.v, FP))

\* the body of the two loops for one pair of debris particles
collidePair(p1, p2) ==
  IF p1.x.nan \/ p1.y.nan \/ p2.x.nan \/ p2.y.nan THEN <<p1, p2>>
  ELSE
  LET dx == p2.x.v - p1.x.v
      dy == p2.y.v - p1.y.v
      distance == Abs(dx) + Abs(dy)
      minDistance == p1.boundingRadius + p2.boundingRadius
      overlap == (minDistance - distance) \div 2
      \* Math.atan2(0, 0) is 0: cos 1, sin 0
      cos == IF distance = 0 THEN FP ELSE Sgn(dx) * FP
      sin == IF distance = 0 THEN 0 ELSE Sgn(dy) * FP
      v1x == Scale(p1.vx, cos, FP) + Scale(p1.vy, sin, FP)
      v1y == Scale(p1.vy, cos, FP) - Scale(p1.vx, sin, FP)
      v2x == Scale(p2.vx, cos, FP) + Scale(p2.vy, sin, FP)
      v2y == Scale(p2.vy, cos, FP) - Scale(p2.vx, sin, FP)
      w1x == Scale(v2x, 6, 10)
      w2x == Scale(v1x, 6, 10)
  IN  IF distance < minDistance
      THEN << [p1 EXCEPT !.x = Minus(@, overlap, Quotient(dx, distance)),
                         !.y = Minus(@, overlap, Quotient(dy, distance)),
                         !.vx = Scale(w1x, cos, FP) - Scale(v1y, sin, FP),
                         !.vy = Scale(v1y, cos, FP) + Scale(w1x, sin, FP)],
              [p2 EXCEPT !.x = Plus(@, overlap, Quotient(dx, distance)),
                         !.y = Plus(@, overlap, Quotient(dy, distance)),
                         !.vx = Scale(w2x, cos, FP) - Scale(v2y, sin, FP),
                         !.vy = Scale(v2y, cos, FP) + Scale(w2x, sin, FP)] >>
      ELSE <<p1, p2>>

collideAt(ps, i, j) ==
  IF ps[i].type = "debris" /\ ps[j].type = "debris"
  THEN LET r == collidePair(ps[i], ps[j]) IN [ps EXCEPT ![i] = r[1], ![j] = r[2]]
  ELSE ps

\* for (i ...) for (j = i + 1 ...)
RECURSIVE collideDebris(_, _, _)
collideDebris(ps, i, j) ==
  IF i > Len(ps) THEN ps
  ELSE IF j > Len(ps) THEN collideDebris(ps, i + 1, i + 2)
  ELSE collideDebris(collideAt(ps, i, j), i, j + 1)

\* pairs of particles as the map() and filter() of a frame leave them: the
\* second one at the place of the first, or beside, above or below it
PairSpeeds == {-(FP \div 50), 0, FP \div 50}
PairOffsets ==
  {<<0, 0>>, <<FP \div 20, 0>>, <<-(FP \div 20), 0>>, <<0, FP \div 20>>,
   <<0, -(FP \div 20)>>, <<FP, 0>>}
PairParticle(type, x, y, vx, radius) ==
  [type |-> type, x |-> Num(x), y |-> Num(y), vx |-> vx, vy |-> FP \div 100,
   boundingRadius |-> radius]

InitPairs ==
  /\ probe = NoProbe
  /\ board = createBoard
  /\ player = Spawn(TETROMINOES.O)
  /\ nextTetromino = TETROMINOES.O
  /\ score = 0
  /\ lines = 0
  /\ level = 1
  /\ highScore = 0
  /\ isGameOver = FALSE
  /\ isPaused = FALSE
  /\ \E type \in {"debris", "smoke"}, o \in PairOffsets, v1 \in PairSpeeds, v2 \in PairSpeeds,
        radius \in {FP \div 10, FP \div 5} :
        particles = << PairParticle("debris", 2 * FP, 2 * FP, v1, FP \div 10),
                       PairParticle(type, 2 * FP + o[1], 2 * FP + o[2], v2, radius) >>
  /\ isAnimating = FALSE
  /\ backgroundTheme = "FOREST"
  /\ timers = {}
  /\ dropInterval = OneInterval
  /\ physicsFrame = OneFrame
  /\ nEvents = 0

\* the collision loop of one frame
CollidePairs ==
  /\ nEvents < MaxEvents
  /\ nEvents' = nEvents + 1
  /\ particles' = collideDebris(particles, 1, 2)
  /\ probe' = [offset |-> Off(0, 0), outcome |-> "collide"]
  /\ UNCHANGED <<board, player, nextTetromino, score, lines, level, highScore,
                 isGameOver, isPaused, isAnimating, backgroundTheme,
                 timers, dropInterval, physicsFrame>>

PairSpec == InitPairs /\ [][CollidePairs]_vars

\* two debris particles whose centres coincide
Coincide(p1, p2) ==
  /\ p1.type = "debris" /\ p2.type = "debris"
  /\ ~p1.x.nan /\ ~p1.y.nan
  /\ p1.x = p2.x /\ p1.y = p2.y

\* C33: when two overlapping debris particles are at distance exactly 0,
\* the collision step divides nothing by that distance and does not
\* separate the pair: both keep their positions, which stay finite
C33_ZeroDistanceGuarded ==
  [][(CollidePairs /\ Coincide(particles[1], particles[2]))
       => \A i \in {1, 2} :
            /\ ~particles'[i].x.nan /\ ~particles'[i].y.nan
            /\ particles'[i].x = particles[i].x /\ particles'[i].y = particles[i].y]_vars

\* ------------------------------------------------- pipelines in flight
\* C34: at most one line-clear pipeline has a callback pending, and while
\* one has, isAnimating is set, which keeps locks, hard drops and test
\* requests from starting another
C34_OnePipelineInFlight ==
  /\ Cardinality(timers) <= 1
  /\ timers # {} => isAnimating

\* a restart has happened while the pipeline waits for its nested callback,
\* and the pipeline is still the only one
C34_Witness ==
  \E t \in timers : t.restarted /\ t.stage = "sweep" /\ ~isGameOver /\ ~isPaused

\* ---------------------------------------------------- the active piece
\* The state right after this run of a game: the first piece, an I, is
\* moved one column to the right and hard-dropped, the next piece is an I,
\* Test Line Clear is pressed and, before its first timer fires, New Game,
\* which draws an L or a J as the first piece.
RestartedBoard ==
  [y \in 0..(BOARD_HEIGHT - 1) |->
     IF y = BOARD_HEIGHT - 1 THEN FullRow
     ELSE [x \in 0..(BOARD_WIDTH - 1) |->
             IF x = 2 /\ y >= BOARD_HEIGHT - 4 THEN <<"I", "merged">> ELSE EmptyCell]]

InitRestarted ==
  /\ probe = NoProbe
  /\ board = createBoard
  /\ \E piece \in {TETROMINOES.L, TETROMINOES.J} : player = Spawn(piece)
  /\ nextTetromino \in randomTetromino
  /\ score = 0
  /\ lines = 0
  /\ level = 1
  /\ highScore = 0
  /\ isGameOver = FALSE
  /\ isPaused = FALSE
  /\ particles = << >>
  /\ isAnimating = TRUE
  /\ backgroundTheme \in ThemeChoices
  /\ \E theme \in ThemeChoices :
        timers = {[stage |-> "clear", kind |-> "test", newBoard |-> RestartedBoard,
                   rows |-> {BOARD_HEIGHT - 1}, level |-> 1,
                   nextTetromino |-> TETROMINOES.I, theme |-> theme,
                   score0 |-> 0, lines0 |-> 0, restarted |-> TRUE]}
  /\ dropInterval = NoInterval
  /\ physicsFrame = OneFrame
  /\ nEvents = 0

RestartedSpec == InitRestarted /\ [][Next]_vars

\* the grid cells the occupied cells of the active piece cover
PieceCells == Covered(0)

\* C35: while the game is not over and no pipeline runs, every occupied
\* cell of the active piece lies inside the grid and on a cell whose
\* status is clear
C35_PieceOnClearCells ==
  (~isGameOver /\ ~isAnimating) =>
     \A c \in PieceCells :
        /\ c[1] \in 0..(BOARD_HEIGHT - 1) /\ c[2] \in 0..(BOARD_WIDTH - 1)
        /\ board[c[1]][c[2]][2] = "clear"

\* ------------------------------------------------------------ full rows
\* C36: while no pipeline runs (isAnimating is false), no row of the grid
\* consists entirely of merged cells
C36_NoFullRowWhenIdle == ~isAnimating => EntirelyMerged(board) = {}

\* a pipeline has removed the rows a lock completed and has left the rest
\* of the stack
C36_Witness ==
  /\ score > 0
  /\ ~isAnimating
  /\ ~isGameOver
  /\ \E c \in Cells(board) : c[2] = "merged"

\* ------------------------------------------------------- rows per lock
\* C37: the rows a lock finds full are rows the locked piece covers, so
\* their number n is at most 4, and when the nested callback of a pipeline
\* adds LINE_POINTS[n-1] * level (LINE_POINTS[n] with the 1-based tuple of
\* this module) n is an index of the table and the score a natural number
C37_RowsPerLockInTable ==
  [][/\ LockStep =>
          \A t \in timers' \ timers :
             /\ Cardinality(t.rows) <= 4
             /\ \E d \in 0..BOARD_HEIGHT :
                   /\ t.newBoard = WithMerged(Covered(d))
                   /\ t.rows \subseteq {c[1] : c \in Covered(d)}
     /\ \A t \in timers :
          SweepFires(t) => Cardinality(t.rows) \in DOMAIN LINE_POINTS /\ score' \in Nat]_vars

\* the pipeline of a lock that completed two rows waits for its nested
\* callback
C37_Witness ==
  \E t \in timers : t.kind = "lock" /\ t.stage = "sweep" /\ Cardinality(t.rows) > 1

\* --------------------------------------------------- pipeline termination
\* the steps of ClearTimer and SweepTimer, told by what they do to the
\* pending timers: no other action moves a timer to its nested stage or
\* removes one
ClearTimerFires == \E t \in timers : ClearFires(t)
SweepTimerFires == \E t \in timers : SweepFires(t)

\* a callback passed to setTimeout runs once its delay has passed: nothing
\* in the program cancels it, and neither timer callback tests isPaused or
\* isGameOver
FairSpec ==
  Init /\ [][Next]_vars /\ WF_timers(ClearTimerFires) /\ WF_timers(SweepTimerFires)

\* C38: a pipeline that has been entered (isAnimating true) is followed by
\* a state with isAnimating false, whatever pause toggles, focus losses and
\* restarts happen meanwhile
C38_PipelineReturnsToIdle == isAnimating ~> ~isAnimating

\* the game was paused while a pipeline waits for its nested callback
C38_Witness ==
  isPaused /\ isAnimating /\ \E t \in timers : t.stage = "sweep" /\ t.kind = "lock"

\* ------------------------------------------------------- collided flag
\* C39: while the game is running and no pipeline is animating, the
\* collided flag of the active piece is false
C39_CollidedNeverSurvives == (~isGameOver /\ ~isAnimating) => ~player.collided

\* a piece has landed without completing a row and the next piece falls
C39_Witness ==
  /\ ~isGameOver
  /\ ~isAnimating
  /\ ~isPaused
  /\ score = 0
  /\ player.pos.y > 0
  /\ \E c \in Cells(board) : c[2] = "merged"

\* ------------------------------------------------- rotate on the heap
\* JavaScript arrays are objects: the heap maps an address to the array
\* stored there, and a matrix is the address of an array of row addresses.
\* The heap that holds matrix m alone: the outer array at address 0, row y
\* at address y + 1
Store(m) ==
  [a \in 0..Rows(m) |-> IF a = 0 THEN [y \in 0..(Rows(m) - 1) |-> y + 1] ELSE m[a - 1]]

\* the matrix value found at address ref
Load(heap, ref) == [y \in DOMAIN heap[ref] |-> heap[heap[ref][y]]]

\* Array.prototype.reverse, on the array value
ReverseArray(arr) ==
  [k \in DOMAIN arr |-> arr[(Cardinality(DOMAIN arr) - 1) - k]]

\* rotate that reverses the rows of its argument in place before it builds
\* the transposed copy
rotateOnHeap_reversesInput(heap, matrix) ==
  LET n == Cardinality(DOMAIN heap[matrix])
      base == Cardinality(DOMAIN heap)
      inputRows == {heap[matrix][k] : k \in DOMAIN heap[matrix]}
      h1 == [a \in DOMAIN heap |-> IF a \in inputRows THEN ReverseArray(heap[a]) ELSE heap[a]]
      h2 == [a \in 0..(base + n) |->
               IF a < base THEN h1[a]
               ELSE IF a < base + n THEN [k \in 0..(n - 1) |-> h1[h1[matrix][k]][a - base]]
               ELSE [index \in 0..(n - 1) |-> base + index]]
  IN  [heap |-> h2, result |-> base + n]

\* rotate, array by array: matrix.map((_, index) => matrix.map(col =>
\* col[index])) allocates one new array per index and the array rotated of
\* their addresses; rotated.map(row => row.reverse()) reverses each of those
\* arrays in place and allocates the array it returns
rotateOnHeap(heap, matrix) ==
  LET n == Cardinality(DOMAIN heap[matrix])
      base == Cardinality(DOMAIN heap)
      h1 == [a \in 0..(base + n) |->
               IF a < base THEN heap[a]
               ELSE IF a < base + n THEN [k \in 0..(n - 1) |-> heap[heap[matrix][k]][a - base]]
               ELSE [index \in 0..(n - 1) |-> base + index]]
      rotated == base + n
      reversedRows == {h1[rotated][k] : k \in DOMAIN h1[rotated]}
      h2 == [a \in 0..(base + n + 1) |->
               IF a = base + n + 1 THEN h1[rotated]
               ELSE IF a \in reversedRows THEN ReverseArray(h1[a])
               ELSE h1[a]]
  IN  [heap |-> h2, result |-> base + n + 1]

\* the seven piece kinds of TETROMINOES
PieceKinds == {"I", "J", "L", "O", "S", "T", "Z"}

\* the shape of a kind after k rotations: the matrices playerRotate passes
\* to rotate
RECURSIVE Orientation(_, _)
Orientation(m, k) == IF k = 0 THEN m ELSE rotate(Orientation(m, k - 1))

\* one matrix on the heap, not yet rotated
InitRotate ==
  /\ \E kind \in PieceKinds, k \in 0..3 :
        /\ player = [Spawn(TETROMINOES[kind]) EXCEPT !.tetromino = Orientation(@, k)]
        /\ nextTetromino = TETROMINOES[kind]
  /\ probe = [offset |-> Off(0, 0), outcome |-> "none", heap |-> Store(player.tetromino),
              matrix |-> 0, input |-> 0, before |-> player.tetromino,
              original |-> player.tetromino, turns |-> 0]
  /\ board = createBoard
  /\ score = 0
  /\ lines = 0
  /\ level = 1
  /\ highScore = 0
  /\ isGameOver = FALSE
  /\ isPaused = FALSE
  /\ particles = << >>
  /\ isAnimating = FALSE
  /\ backgroundTheme = "FOREST"
  /\ timers = {}
  /\ dropInterval = OneInterval
  /\ physicsFrame = OneFrame
  /\ nEvents = 0

\* one call of rotate on the matrix the last call returned
RotateCall ==
  /\ probe.turns < MaxTurns
  /\ LET call == rotateOnHeap(probe.heap, probe.matrix)
     IN  /\ probe' = [probe EXCEPT !.outcome = "rotate", !.heap = call.heap,
                                   !.matrix = call.result, !.input = probe.matrix,
                                   !.before = Load(probe.heap, probe.matrix),
                                   !.turns = @ + 1]
         /\ player' = [player EXCEPT !.tetromino = Load(call.heap, call.result)]
  /\ UNCHANGED <<board, nextTetromino, score, lines, level, highScore, isGameOver,
                 isPaused, particles, isAnimating, backgroundTheme, timers,
                 dropInterval, physicsFrame, nEvents>>

RotateSpec == InitRotate /\ [][RotateCall]_vars

\* C40: for a matrix of one of the seven kinds, in any orientation, the
\* matrix rotate returns has the dimensions and the number of occupied cells
\* of its argument, the argument holds after the call what it held before,
\* and the fourth call in a row returns the matrix the first was given
C40_RotateProperties ==
  LET input == probe.before
      result == Load(probe.heap, probe.matrix)
      inputAfter == Load(probe.heap, probe.input)
  IN  /\ DOMAIN result = DOMAIN input
      /\ \A y \in DOMAIN result : DOMAIN result[y] = DOMAIN input[y]
      /\ Cardinality(Occupied(result)) = Cardinality(Occupied(input))
      /\ inputAfter = input
      /\ probe.turns % 4 = 0 => result = probe.original

\* the fourth rotation of an L piece has been made
C40_Witness ==
  /\ probe.outcome = "rotate"
  /\ probe.turns = 4
  /\ probe.original = TETROMINOES.L
  /\ probe.before # probe.original
====
